---- MODULE Spec2Model ----
(***************************************************************************)
(* Model of the HTTP request smuggling detector: the scan orchestrator     *)
(* (src/cli/main.py), the CL.TE, TE.CL and H2.TE detection classes         *)
(* (src/detectors), the HTTP/1.1 transport's request serialiser and        *)
(* response reader (src/clients/http1.py) and the HTTP/2 transport         *)
(* (src/clients/http2.py).                                                 *)
(*                                                                         *)
(* Times are in centiseconds (0.10 s = 10).  A text is a sequence of       *)
(* tokens: a token is a run of ordinary characters or one control          *)
(* character, and concatenation is \o.                                     *)
(***************************************************************************)
EXTENDS Integers, Sequences, FiniteSets, TLC

\* ---------------------------------------------------------------- bounds
\* Longest mutation file the model loads.
MaxFileLen == 2

\* ------------------------------------------------------ program constants
\* Default request timeout, 5.0 s.
TimeoutT == 500
\* status_code of a response on which no status was received (None).
NoStatus == 0

\* ------------------------------------------------- the mock target's times
\* Baseline response times the target produces.
BaseTimes == {10}
\* Times at which a probe answered with status 200 completes: 1.2x, 1.8x, 3x
\* and 5x the 0.10 s baseline.
TimesOk == {12, 18, 30, 50}
\* Times at which a probe answered with status 400 completes: 1.5x and 1.8x.
TimesBad == {15, 18}

\* ------------------------------------------------------------------ texts
CR == "\\r-byte"
LF == "\\n-byte"
TAB == "\\t-byte"

\* str.replace('\n', '\\n').replace('\r', '\\r').replace('\t', '\\t')
EscapeToken(tok) ==
    IF tok = LF THEN "\\n" ELSE IF tok = CR THEN "\\r" ELSE IF tok = TAB THEN "\\t" ELSE tok

Escape(text) == [k \in 1..Len(text) |-> EscapeToken(text[k])]

\* ------------------------------------------------------------- catalogues
\* The built-in list of Transfer-Encoding variations of CL.TE and TE.CL.
DefaultTeHeaders ==
    << [description |-> <<"Standard chunked encoding">>,
        header_name |-> <<"Transfer-Encoding">>,
        header_value |-> <<"chunked">>],
       [description |-> <<"Space after header name">>,
        header_name |-> <<"Transfer-Encoding", " ">>,
        header_value |-> <<"chunked">>] >>

\* The k-th object of a mutation file: k tabs before the value "chunked".
FileEntry(k) ==
    [description |-> <<"file variation">> \o [j \in 1..k |-> "i"],
     header_name |-> <<"Transfer-Encoding">>,
     header_value |-> [j \in 1..k |-> TAB] \o <<"chunked">>]

\* A mutation file of n objects, as json.load returns it.
FileData(n) == [k \in 1..n |-> FileEntry(k)]

\* cl_te_detector: every entry that has header_name and header_value is kept whole.
LoadClTe(data) ==
    LET ok(e) == "header_name" \in DOMAIN e /\ "header_value" \in DOMAIN e
    IN  SelectSeq(data, ok)

\* te_cl_detector: a new dict of header_name, header_value and extra_headers
\* is built for every entry; the description is not copied.
LoadTeCl(data) ==
    LET conv(e) == [header_name |-> e.header_name,
                    header_value |-> e.header_value,
                    extra_headers |-> IF "extra_headers" \in DOMAIN e
                                      THEN e.extra_headers ELSE <<>>]
        ok(h) == h.header_name # <<>> /\ h.header_value # <<>>
    IN  SelectSeq([k \in 1..Len(data) |-> conv(data[k])], ok)

\* The four built-in mutations of H2.TE.
H2Mutations ==
    << [description |-> <<"Standard Transfer-Encoding header">>,
        header_name |-> <<"transfer-encoding">>,
        header_value |-> <<"chunked">>,
        type |-> "normal_header"],
       [description |-> <<"H2.TE via Request Header Injection in Custom Header Value">>,
        header_name |-> <<"x-custom">>,
        header_value |-> <<"foo", CR, LF, "transfer-encoding: chunked">>,
        type |-> "custom_header_value"],
       [description |-> <<"H2.TE via Request Header Injection in Custom Header Name">>,
        header_name |-> <<"x-custom:foo", CR, LF, "transfer-encoding">>,
        header_value |-> <<"chunked">>,
        type |-> "custom_header_name"],
       [description |-> <<"H2.TE via Request Line Injection">>,
        header_name |-> <<":method">>,
        header_value |-> <<"POST / HTTP/1.1", CR, LF, "Transfer-encoding: chunked", CR, LF, "x: x">>,
        type |-> "request_line"] >>

\* payload_placement values the command line accepts; "" is no filter (None).
Placements == {"", "normal_header", "custom_header_value", "custom_header_name", "request_line"}

\* mutations = [m for m in mutations if m["type"] == payload_placement]
FilterMutations(payload_placement) ==
    IF payload_placement = "" THEN H2Mutations
    ELSE SelectSeq(H2Mutations, LAMBDA m : m.type = payload_placement)

\* ------------------------------------------------------------------ state
VARIABLES
    opts,                \* the invocation: entry point, class list, exit_first, file, placement
    pc,                  \* position of the running scan
    ti,                  \* index in opts.types of the class being run
    results,             \* the orchestrator's result map, class tag -> outcome
    te_headers,          \* catalogue of the running class
    i,                   \* number of mutations whose probe iteration was started
    baseline,            \* outcome of the running class's baseline request
    result,              \* result dict of the current HTTP/1 probe
    vulnerable_headers,  \* CL.TE / TE.CL: (mutation, description) pairs found so far
    h2_results,          \* H2.TE: the results dict (findings, errors, vulnerable)
    ret,                 \* what the class returned: its findings, or the exception it raised
    client,              \* the transport the running step uses
    net,                 \* network trace of the running class
    hist,                \* each probe of the running class: what the target did, what H2.TE emitted
    h1,                  \* an HTTP1Client: _connected, keep_alive, and whether its
                         \* connection already carried a response
    wire,                \* bytes the last send_request handed to the socket
    call,                \* the last call made on the HTTP1Client and how it ended
    req,                 \* the arguments send_request is called with
    reply,               \* what the HTTP/1.1 peer does after a request
    h2c,                 \* an HTTP2Client: options, _connected, next stream, response dicts
    frames,              \* frames the last HTTP/2 send handed to the socket
    h2call,              \* the last call made on the HTTP2Client and how it ended
    h2req,               \* the arguments the HTTP/2 send methods are called with
    inbox,               \* what the HTTP/2 peer will send: one batch of events per read
    pipe,                \* the arguments pipeline_requests is called with and what its peer does
    pcall,               \* the last pipeline_requests call: socket trace, outcome, returned list
    target,              \* the arguments one detector is called with, and the mutation under test
    built,               \* the requests that detector has handed to its transport, in order
    cli,                 \* the options the scan command is invoked with
    run,                 \* how far that command got: its stage, its class list, the classes it ran
    tp,                  \* one transport object and its sockets: _connected, _writer, the
                         \* sockets it opened that are still open, and its last call
    hw,                  \* an HTTP/2 send method after its frames were written: the clock,
                         \* the read under way, the pending wait_for deadlines, what arrived
    rd,                  \* HTTP1Client._parse_response under way: the reader it is in, how
                         \* much it has collected, whether the peer has closed, how it ended
    ws                   \* the web front-end: active_websockets, the websockets accepted so
                         \* far, the scan whose output is streamed and who received it

scanvars == <<opts, pc, ti, results, te_headers, i, baseline, result,
              vulnerable_headers, h2_results, ret, client, net, hist>>

h1vars == <<h1, wire, call, req, reply>>

h2vars == <<h2c, frames, h2call, h2req, inbox>>

pipevars == <<pipe, pcall>>

buildvars == <<target, built>>

clivars == <<cli, run>>

extvars == <<tp, hw, rd, ws>>

unitvars == <<pipevars, buildvars, clivars, extvars>>

vars == <<scanvars, h1vars, h2vars, unitvars>>

\* ------------------------------------------------------------ invocations
\* Class lists the orchestrator is started with (-t), in the order given.
TypeLists ==
    { <<"cl.te">>, <<"te.cl">>, <<"h2.te">>,
      <<"cl.te", "te.cl">>, <<"te.cl", "h2.te">> }

\* `scan` of cli/main.py: the detectors are called with url, verbose, timeout,
\* exit_first, custom_headers and, for an h2 class, payload_placement; the
\* --file option is not handed on, so the built-in catalogue is used.
ScanInvocations ==
    { [mode |-> "scan", types |-> ts, exit_first |-> e, headers_file |-> FALSE,
       file_data |-> <<>>, payload_placement |-> p] :
         ts \in TypeLists, e \in BOOLEAN, p \in Placements }

\* main() of one detector module: -f names the mutation file (CL.TE, TE.CL).
MainInvocations ==
    { [mode |-> "main", types |-> <<c>>, exit_first |-> e, headers_file |-> TRUE,
       file_data |-> FileData(n), payload_placement |-> ""] :
         c \in {"cl.te", "te.cl"}, e \in BOOLEAN, n \in 0..MaxFileLen }

\* An invocation names a placement only when it runs an h2 class.
Invocations ==
    { o \in ScanInvocations :
        o.payload_placement = "" \/ \E k \in 1..Len(o.types) : o.types[k] = "h2.te" }
    \cup MainInvocations

\* ------------------------------------------------- HTTP/1.1 request data
\* Most header tuples one request of the model carries.
MaxHeaders == 2

\* An Optional[bytes] argument: None, or a byte string that may be empty.
None == [some |-> FALSE, bytes |-> <<>>]
Some(b) == [some |-> TRUE, bytes |-> b]

\* Truth value of an Optional[bytes]: None and b"" are both false.
Truthy(x) == x.some /\ x.bytes # <<>>

\* str.encode("utf-8", errors="surrogateescape") of one character: an ASCII
\* run is its own bytes, U+00E9 becomes two bytes and the escaped surrogate
\* U+DCFF becomes the single byte 0xFF.
EncodeChar(ch) ==
    IF ch = "U+00E9" THEN <<"0xC3", "0xA9">>
    ELSE IF ch = "U+DCFF" THEN <<"0xFF">>
    ELSE <<ch>>

RECURSIVE Encode(_)
Encode(text) ==
    IF text = <<>> THEN <<>> ELSE EncodeChar(Head(text)) \o Encode(Tail(text))

\* "".join(parts)
RECURSIVE Join(_)
Join(parts) == IF parts = <<>> THEN <<>> ELSE Head(parts) \o Join(Tail(parts))

\* HTTP1Client._build_request
HTTP1Client_build_request(method, path, headers, body) ==
    LET request_line == method \o <<" ">> \o path \o <<" ", "HTTP/1.1", CR, LF>>
        header_parts == [k \in 1..Len(headers) |->
                            headers[k][1] \o <<":", " ">> \o headers[k][2] \o <<CR, LF>>]
        request_parts == <<request_line>> \o header_parts \o << <<CR, LF>> >>
        request_bytes == Encode(Join(request_parts))
    IN  IF Truthy(body) THEN request_bytes \o body.bytes ELSE request_bytes

\* request_data = raw_request if raw_request else self._build_request(...)
RequestData(method, path, headers, body, raw_request) ==
    IF Truthy(raw_request) THEN raw_request.bytes
    ELSE HTTP1Client_build_request(method, path, headers, body)

\* The arguments the model calls send_request with.
Methods == { <<"GET">>, <<"POST">> }
Paths == { <<"/">>, <<"/", "U+00E9">> }
HeaderTuples ==
    { << <<"Host">>, <<"a">> >>,
      << <<"host">>, <<"a">> >>,
      << <<" ", "X", " ">>, <<" ", "U+DCFF", TAB>> >>,
      << <<"Content-Length">>, <<"4">> >> }
HeaderLists == UNION { [1..k -> HeaderTuples] : k \in 0..MaxHeaders }
Bodies == { None, Some(<<>>), Some(<<"0", CR, LF, CR, LF>>) }
RawRequests == { None, Some(<<>>), Some(<<"PING", " ", "0xFF", CR, LF>>) }

\* No call was made yet.
NoCall ==
    [op |-> "none", outcome |-> "none", wrote |-> FALSE, first |-> FALSE,
     status |-> NoStatus, body |-> <<>>, framing |-> "none"]

\* The arguments of send_request: the model's requests, and the one of a run
\* that sends none.
Requests ==
    [method : Methods, path : Paths, headers : HeaderLists, body : Bodies,
     raw_request : RawRequests]

NoRequest ==
    [method |-> <<>>, path |-> <<>>, headers |-> <<>>, body |-> None,
     raw_request |-> None]

\* ------------------------------------------------------------ lower case
\* str.lower() of one token.
LowerToken(tok) ==
    CASE tok = "X-Custom" -> "x-custom"
      [] tok = "Transfer-Encoding" -> "transfer-encoding"
      [] tok = "TRANSFER-ENCODING" -> "transfer-encoding"
      [] tok = "Content-Length" -> "content-length"
      [] tok = "Chunked" -> "chunked"
      [] tok = "gzip, Chunked" -> "gzip, chunked"
      [] OTHER -> tok

Lower(text) == [k \in 1..Len(text) |-> LowerToken(text[k])]

\* ------------------------------------------- reading an HTTP/1.1 response
\* What the peer does after the request: the header block it sends (the
\* status line, the header lines, and where the block stops when it is not
\* sent whole), the bytes that follow, and whether it then closes the
\* connection or goes silent.
NoReply ==
    [valid_status |-> FALSE, status |-> NoStatus, headers |-> <<>>, cut |-> "none",
     body |-> <<>>, ending |-> "close"]

\* The outcome of one read.
ReadOk(body, framing) == [outcome |-> "ok", body |-> body, framing |-> framing]
ReadRaised(exc, framing) == [outcome |-> exc, body |-> <<>>, framing |-> framing]

\* int(value) of a Content-Length value; values that make int() raise
\* ValueError are not in the domain.
IntValues ==
    (<<"0">> :> 0) @@ (<<"3">> :> 3) @@ (<<"5">> :> 5) @@ (<<"-1">> :> (0 - 1))

\* The value of one hexadecimal digit, for int(chunk_size_hex, 16).
HexDigits ==
    ("0" :> 0) @@ ("1" :> 1) @@ ("2" :> 2) @@ ("3" :> 3) @@ ("a" :> 10) @@ ("f" :> 15)

\* int(line, 16) of a chunk-size line without its CRLF; -1 stands for the
\* ValueError of an empty or a non-hexadecimal line.
RECURSIVE HexValue(_, _)
HexValue(line, acc) ==
    IF line = <<>> THEN acc
    ELSE IF Head(line) \notin DOMAIN HexDigits THEN 0 - 1
    ELSE HexValue(Tail(line), 16 * acc + HexDigits[Head(line)])

ChunkSize(line) == IF line = <<>> THEN 0 - 1 ELSE HexValue(line, 0)

\* The position of the first CR LF in the buffered bytes, 0 when there is
\* none: where readuntil(b'\r\n') stops.
FirstCRLF(data) ==
    LET at == { k \in 1..(Len(data) - 1) : data[k] = CR /\ data[k + 1] = LF }
    IN  IF at = {} THEN 0 ELSE CHOOSE k \in at : \A l \in at : k <= l

\* 'chunked' in value.lower()
ContainsChunked(value) ==
    \E k \in 1..Len(value) : LowerToken(value[k]) \in {"chunked", "gzip, chunked"}

\* _parse_response, "Determine body length": the last Content-Length that
\* int() accepts, None when there is none.
RECURSIVE ContentLengthOf(_, _)
ContentLengthOf(headers, content_length) ==
    IF headers = <<>> THEN content_length
    ELSE ContentLengthOf(Tail(headers),
                         IF Lower(Head(headers)[1]) = <<"content-length">>
                               /\ Head(headers)[2] \in DOMAIN IntValues
                         THEN [some |-> TRUE, n |-> IntValues[Head(headers)[2]]]
                         ELSE content_length)

\* _parse_response, "Determine body length": chunked is set by a
\* Transfer-Encoding header whose value contains 'chunked'.
IsChunked(headers) ==
    \E k \in 1..Len(headers) :
        /\ Lower(headers[k][1]) = <<"transfer-encoding">>
        /\ ContainsChunked(headers[k][2])

\* _read_chunked_body, the chunk-size readuntil when the peer is silent: the
\* except clause names IncompleteReadError and LimitOverrunError only, so the
\* timeout of wait_for leaves the method.
ChunkSizeStall(body) == ReadRaised("TimeoutError", "chunked")

\* _read_chunked_body on the bytes `data` the peer sends before it ends the
\* way `ending` says.
RECURSIVE HTTP1Client_read_chunked_body(_, _, _)
HTTP1Client_read_chunked_body(data, ending, body) ==
    LET k == FirstCRLF(data)
        chunk_size == ChunkSize(SubSeq(data, 1, k - 1))
        after == SubSeq(data, k + 2, Len(data))
    IN  IF k = 0
        THEN IF ending = "stall" THEN ChunkSizeStall(body) ELSE ReadOk(body, "chunked")
        ELSE IF chunk_size < 0 THEN ReadOk(body, "chunked")
        ELSE IF chunk_size = 0 THEN ReadOk(body, "chunked")
        ELSE IF Len(after) < chunk_size THEN ReadOk(body, "chunked")
        ELSE IF Len(after) < chunk_size + 2
             THEN ReadOk(body \o SubSeq(after, 1, chunk_size), "chunked")
        ELSE HTTP1Client_read_chunked_body(
                 SubSeq(after, chunk_size + 3, Len(after)), ending,
                 body \o SubSeq(after, 1, chunk_size))

\* _read_content_length_body: readexactly raises ValueError on a negative
\* size, returns the partial data when the peer closes early and times out
\* when it goes silent.
HTTP1Client_read_content_length_body(data, ending, content_length) ==
    IF content_length = 0 THEN ReadOk(<<>>, "content-length")
    ELSE IF content_length < 0 THEN ReadRaised("ValueError", "content-length")
    ELSE IF Len(data) >= content_length
         THEN ReadOk(SubSeq(data, 1, content_length), "content-length")
    ELSE IF ending = "close" THEN ReadOk(data, "content-length")
    ELSE ReadRaised("TimeoutError", "content-length")

\* _read_until_close: a timeout ends the loop like the end of the stream.
HTTP1Client_read_until_close(data, ending) == ReadOk(data, "until-close")

\* _parse_response, "Read the body based on headers".
ReadBody(headers, data, ending) ==
    LET content_length == ContentLengthOf(headers, [some |-> FALSE, n |-> 0])
    IN  IF IsChunked(headers) THEN HTTP1Client_read_chunked_body(data, ending, <<>>)
        ELSE IF content_length.some
             THEN HTTP1Client_read_content_length_body(data, ending, content_length.n)
        ELSE HTTP1Client_read_until_close(data, ending)

\* _read_headers and _parse_response: a silent peer before the end of the
\* header block is a timeout; a block without a status line is a ValueError;
\* a block cut by the end of the stream is parsed as far as it goes.
HTTP1Client_parse_response(r) ==
    IF r.cut # "none" /\ r.ending = "stall" THEN ReadRaised("TimeoutError", "none")
    ELSE IF r.cut = "status_line" \/ ~r.valid_status THEN ReadRaised("ValueError", "none")
    ELSE ReadBody(r.headers, r.body, r.ending)

\* ---------------------------------------------------- HTTP/2 header lists

\* name.startswith(':')
IsPseudo(name) ==
    name # <<>> /\ Head(name) \in {":method", ":path", ":scheme", ":authority", ":x-new"}

\* The standard pseudo-headers every request starts with.
StandardPseudoHeaders(method, path, use_tls) ==
    << << <<":method">>, method >>,
       << <<":path">>, path >>,
       << <<":scheme">>, IF use_tls THEN <<"https">> ELSE <<"http">> >>,
       << <<":authority">>, <<"host:port">> >> >>

\* send_malformed_headers, "Add custom headers": a header whose name starts
\* with ':' replaces the first entry of that name when there is one and is
\* appended otherwise; any other header is appended with its name lower-cased.
RECURSIVE AddCustomHeaders(_, _)
AddCustomHeaders(h2_headers, headers) ==
    IF headers = <<>> THEN h2_headers
    ELSE LET name == Head(headers)[1]
             value == Head(headers)[2]
             same == { j \in 1..Len(h2_headers) : h2_headers[j][1] = name }
             first == CHOOSE j \in same : \A l \in same : j <= l
             next == IF IsPseudo(name)
                     THEN IF same # {}
                          THEN [h2_headers EXCEPT ![first] = <<name, value>>]
                          ELSE Append(h2_headers, <<name, value>>)
                     ELSE Append(h2_headers, <<Lower(name), value>>)
         IN  AddCustomHeaders(next, Tail(headers))

\* Variant: every operator header is appended.
MalformedHeaderList_Append(method, path, headers, pseudo_headers, use_tls) ==
    StandardPseudoHeaders(method, path, use_tls) \o pseudo_headers
        \o [k \in 1..Len(headers) |-> <<Lower(headers[k][1]), headers[k][2]>>]

\* The h2_headers list send_malformed_headers hands to the HEADERS frame.
MalformedHeaderList(method, path, headers, pseudo_headers, use_tls) ==
    AddCustomHeaders(StandardPseudoHeaders(method, path, use_tls) \o pseudo_headers,
                     headers)

\* request_headers of the H2.TE detector.
H2RequestHeaders ==
    << << <<"user-agent">>, <<"Mozilla/5.0">> >>,
       << <<"accept">>, <<"*/*">> >>,
       << <<"accept-encoding">>, <<"gzip, deflate, br">> >>,
       << <<"accept-language">>, <<"en-US;q=0.9,en;q=0.8">> >>,
       << <<"cache-control">>, <<"max-age=0">> >> >>

\* test_headers of one H2.TE probe: the mutation's header is appended when
\* payload_placement is one of the four placement names.
H2TestHeaders(mutation, payload_placement) ==
    IF payload_placement \in {"normal_header", "custom_header_value",
                              "custom_header_name", "request_line"}
    THEN Append(H2RequestHeaders, <<mutation.header_name, mutation.header_value>>)
    ELSE H2RequestHeaders

\* ------------------------------------------------ HTTP/2 transport data
\* Most header tuples one HTTP/2 request of the model carries.
MaxH2Headers == 2
\* Most streams the model opens on one connection.
MaxStreams == 2
\* Most reads the peer answers on one connection.
MaxInbox == 3

\* HTTP2Client.__init__: not connected, no h2 connection, empty response dicts.
NewHTTP2Client(use_tls, force_http2) ==
    [use_tls |-> use_tls, force_http2 |-> force_http2, connected |-> FALSE,
     next_stream |-> 1, response_events |-> <<>>, response_data |-> <<>>,
     response_streams |-> <<>>]

NoH2Call ==
    [op |-> "none", outcome |-> "none", was_connected |-> FALSE, tcp |-> "",
     alpn |-> "", settings |-> "", stream |-> 0, status |-> NoStatus,
     body |-> <<>>, ended |-> FALSE]

NoH2Request ==
    [method |-> <<>>, path |-> <<>>, headers |-> <<>>, pseudo_headers |-> <<>>,
     body |-> None, end_stream |-> FALSE, padding_length |-> 0]

\* What one connect() meets: the TCP (and TLS) handshake, the ALPN protocol
\* (looked at under TLS only) and what follows the client preface: the peer's
\* SETTINGS, nothing within connect_timeout, an end of stream, bytes that are
\* no HTTP/2 frames, or a failure of the write of the preface.  A connected
\* client meets nothing: connect() returns at once.
NoEnv == [tcp |-> "", alpn |-> "", settings |-> ""]

ConnectEnvs(c) ==
    IF c.connected THEN {NoEnv}
    ELSE {[NoEnv EXCEPT !.tcp = "fail"]}
         \cup [tcp : {"ok"}, alpn : IF c.use_tls THEN {"h2"} ELSE {""},
               settings : {"settings", "timeout", "closed", "garbage", "write_error"}]
         \cup [tcp : {"ok"}, alpn : IF c.use_tls THEN {"http/1.1"} ELSE {},
               settings : IF c.force_http2
                          THEN {"settings", "timeout", "closed", "garbage", "write_error"}
                          ELSE {""}]

\* Variant: a missing SETTINGS frame makes connect fail.
SettingsTolerated_NoTimeout(settings) == settings \in {"settings", "closed"}

\* connect() after the preface was written: SETTINGS, no reply within
\* connect_timeout (except asyncio.TimeoutError) and an empty read let it go
\* on; other bytes make receive_data raise and a failed write raises, which
\* the outer except turns into ConnectionError.
SettingsTolerated(settings) == settings \in {"settings", "timeout", "closed"}

\* connect() reaches self._connected = True.
ConnectSucceeds(c, env) ==
    /\ env.tcp = "ok"
    /\ (c.use_tls /\ env.alpn # "h2") => c.force_http2
    /\ SettingsTolerated(env.settings)

\* The client after connect(): unchanged when it was connected or when the
\* connect failed, else connected with a new H2Connection.
AfterConnect(c, env) ==
    IF c.connected \/ ~ConnectSucceeds(c, env) THEN c
    ELSE [c EXCEPT !.connected = TRUE, !.next_stream = 1]

\* The client after close(): nothing happens unless it is connected.
AfterClose(c) ==
    IF ~c.connected THEN c
    ELSE [c EXCEPT !.connected = FALSE, !.next_stream = 1, !.response_events = <<>>,
                   !.response_data = <<>>, !.response_streams = <<>>]

\* get_next_available_stream_id and the three "clear previous response data"
\* assignments.
OpenStream(c) ==
    [c EXCEPT !.next_stream = @ + 2,
              !.response_events = (c.next_stream :> <<>>) @@ @,
              !.response_data = (c.next_stream :> <<>>) @@ @,
              !.response_streams = (c.next_stream :> FALSE) @@ @]

\* Frames as the client hands them to the socket.
Frame(type, stream, flags, headers, payload) ==
    [type |-> type, stream |-> stream, flags |-> flags, headers |-> headers,
     payload |-> payload]

\* h2: send_headers(stream_id, headers, end_stream)
HeadersFrame(stream, h2_headers, end_stream) ==
    Frame("HEADERS", stream,
          {"END_HEADERS"} \cup (IF end_stream THEN {"END_STREAM"} ELSE {}),
          h2_headers, <<>>)

\* h2: send_data(stream_id, data, end_stream)
DataFrame(stream, data, end_stream) ==
    Frame("DATA", stream, IF end_stream THEN {"END_STREAM"} ELSE {}, <<>>, data)

\* send_request and send_padded_data: the standard pseudo-headers, then the
\* headers with their names lower-cased.
RequestHeaderList(method, path, headers, use_tls) ==
    StandardPseudoHeaders(method, path, use_tls)
        \o [k \in 1..Len(headers) |-> <<Lower(headers[k][1]), headers[k][2]>>]

\* The frames of send_request.
RequestFrames(stream, r, use_tls) ==
    <<HeadersFrame(stream, RequestHeaderList(r.method, r.path, r.headers, use_tls),
                   ~Truthy(r.body))>>
        \o (IF Truthy(r.body) THEN <<DataFrame(stream, r.body.bytes, TRUE)>> ELSE <<>>)

\* Variant: the DATA frame never ends the stream.
MalformedFrames_OpenData(stream, r, use_tls) ==
    <<HeadersFrame(stream,
                   MalformedHeaderList(r.method, r.path, r.headers, r.pseudo_headers,
                                       use_tls),
                   ~Truthy(r.body) /\ r.end_stream)>>
        \o (IF Truthy(r.body) THEN <<DataFrame(stream, r.body.bytes, FALSE)>> ELSE <<>>)

\* The frames of send_malformed_headers.
MalformedFrames(stream, r, use_tls) ==
    <<HeadersFrame(stream,
                   MalformedHeaderList(r.method, r.path, r.headers, r.pseudo_headers,
                                       use_tls),
                   ~Truthy(r.body) /\ r.end_stream)>>
        \o (IF Truthy(r.body) THEN <<DataFrame(stream, r.body.bytes, r.end_stream)>>
            ELSE <<>>)

\* DataFrame(stream_id, data, pad_length, flags).serialize() of hyperframe: the
\* pad-length byte is written only under the PADDED flag, which the caller
\* does not pass; the padding bytes follow the data in any case.
ManualDataFrame(stream, data, pad_length, flags) ==
    Frame("DATA", stream, flags, <<>>,
          (IF "PADDED" \in flags THEN <<"pad-length byte">> ELSE <<>>)
              \o data \o [k \in 1..pad_length |-> "0x00"])

\* `from h2.frames import DataFrame` inside send_padded_data: h2 ships no
\* module of that name, so the import fails unless the environment provides
\* one.
ImportOutcomes == {"ImportError", "resolved"}

\* The frames of send_padded_data.
PaddedFrames(stream, r, use_tls, import) ==
    <<HeadersFrame(stream, RequestHeaderList(r.method, r.path, r.headers, use_tls),
                   ~Truthy(r.body))>>
        \o (IF Truthy(r.body) /\ import = "resolved"
            THEN <<ManualDataFrame(stream, r.body.bytes, r.padding_length,
                                   IF r.end_stream THEN {"END_STREAM"} ELSE {})>>
            ELSE <<>>)

\* ---------------------------------------------------- the target's answers
Mk(kind, time, status) == [kind |-> kind, time |-> time, status |-> status]

NoOutcome == Mk("none", 0, NoStatus)
\* the read deadline expired
TimedOut == Mk("timeout", TimeoutT, NoStatus)
\* connect() failed: DNS, TCP or TLS error, or the connect timeout
ConnectError == Mk("connect_error", 0, NoStatus)
\* a reply without a status line (HTTP/1.1) or a protocol error (HTTP/2)
BadResponse == Mk("error", 0, NoStatus)
\* a complete response
Answers == { Mk("ok", t, 200) : t \in TimesOk } \cup { Mk("ok", t, 400) : t \in TimesBad }

BaselineOutcomes == { Mk("ok", t, 200) : t \in BaseTimes } \cup {TimedOut, ConnectError, BadResponse}
\* HTTP/2 only: the peer closes the connection without a response, 0.01 s
\* after the request; no read times out and nothing is raised.
PeerClosed == Mk("closed", 1, NoStatus)
BaselineOutcomesH2 == BaselineOutcomes \cup {PeerClosed}
ProbeOutcomes == Answers \cup {TimedOut, ConnectError, BadResponse}
ConfirmOutcomes == { Mk("ok", 12, 200), TimedOut, ConnectError, BadResponse }

\* ---------------------------------------------------------------- network
\* One entry of the network trace.  op is "new" (a transport is constructed),
\* "connect" (it opens connection c), "write" (request bytes of the given kind,
\* for mutation mut, are written on c) or "close" (c is closed).
Ev(op, t, c, kind, mut) == [op |-> op, t |-> t, c |-> c, kind |-> kind, mut |-> mut]

CountOp(log, op) == Cardinality({ k \in 1..Len(log) : log[k].op = op })

\* A transport as constructed: BaseClient.__init__ leaves it not connected.
NewClient(log) == [id |-> CountOp(log, "new") + 1, conn |-> 0, connected |-> FALSE]

EvNew(cl) == Ev("new", cl.id, 0, "", 0)

\* connect(): nothing to do on a connected transport, else a new connection.
Connected(cl, log) ==
    IF cl.connected THEN cl
    ELSE [cl EXCEPT !.conn = CountOp(log, "connect") + 1, !.connected = TRUE]

EvConnect(cl, log) ==
    IF cl.connected THEN <<>> ELSE <<Ev("connect", cl.id, Connected(cl, log).conn, "", 0)>>

\* close(): returns at once on a transport that is not connected.
Closed(cl) == [cl EXCEPT !.connected = FALSE]

EvClose(cl) == IF cl.connected THEN <<Ev("close", cl.id, cl.conn, "", 0)>> ELSE <<>>

\* Variant: send_request leaves the connection open after every outcome.
H1SendEvents_KeepOpen(cl, log, o, kind, mut) ==
    IF o.kind = "connect_error" /\ ~cl.connected THEN <<>>
    ELSE LET c1 == Connected(cl, log)
         IN  EvConnect(cl, log) \o <<Ev("write", c1.id, c1.conn, kind, mut)>>

\* HTTP1Client.send_request with keep_alive false, on the transport cl, when
\* the target's behaviour is o: the events it appends to the trace log.
\* It connects if needed, writes the request, and closes the connection after
\* a complete response or a timeout; any other error propagates with the
\* connection left as it is.
H1SendEvents(cl, log, o, kind, mut) ==
    IF o.kind = "connect_error" /\ ~cl.connected THEN <<>>
    ELSE LET c1 == Connected(cl, log)
         IN  EvConnect(cl, log)
             \o <<Ev("write", c1.id, c1.conn, kind, mut)>>
             \o (IF o.kind \in {"ok", "timeout"} THEN EvClose(c1) ELSE <<>>)

\* ... and the transport afterwards.
H1SendClient(cl, log, o) ==
    IF o.kind = "connect_error" /\ ~cl.connected THEN cl
    ELSE IF o.kind \in {"ok", "timeout"} THEN Closed(Connected(cl, log))
    ELSE Connected(cl, log)

\* ------------------------------------------------------------------- init
\* The result dict test_cl_te_with_header / test_te_cl_with_header starts from.
\* "" stands for None in error and confirm_error, "absent" for a key not set.
NewResult(te_header) ==
    [header |-> te_header, vulnerable |-> FALSE, timed_out |-> FALSE,
     test_time |-> 0, status_code |-> NoStatus, error |-> "",
     confirm_timed_out |-> "absent", confirm_status_code |-> NoStatus,
     confirm_time |-> 0, confirm_error |-> ""]

NoHeader == [header_name |-> <<>>, header_value |-> <<>>]

\* results = {'vulnerable': False, 'findings': [], 'errors': []} of H2.TE
NewH2Results == [vulnerable |-> FALSE, findings |-> <<>>, errors |-> <<>>]

NoClient == [id |-> 0, conn |-> 0, connected |-> FALSE]

NoRet == [kind |-> "none", findings |-> <<>>, exc |-> ""]

Returned(findings) == [kind |-> "findings", findings |-> findings, exc |-> ""]

Raised(exc) == [kind |-> "exception", findings |-> <<>>, exc |-> exc]

\* No pipeline_requests call is made.
NoPipe == [requests |-> <<>>, replies |-> <<>>, ending |-> "close"]

NoPipeCall == [trace |-> <<>>, returned |-> FALSE, responses |-> <<>>]

\* No detector is called for its requests alone.
NoTarget ==
    [class |-> "none",
     url |-> [scheme |-> "http", netloc |-> <<>>, path |-> <<>>, query |-> <<>>],
     custom_headers |-> <<>>, te_header |-> NoHeader, payload_placement |-> ""]

\* The scan command is not invoked.
NoCli == [url |-> FALSE, type |-> [given |-> FALSE, parts |-> <<>>],
          h2_payload_placement |-> ""]

NoRun == [stage |-> "none", vulnerability_types |-> <<>>, invalid_types |-> <<>>,
          started |-> <<>>, connections |-> 0]

\* No transport object is followed for its sockets.
NoTransport ==
    [class |-> "none", use_tls |-> FALSE, force_http2 |-> FALSE, keep_alive |-> FALSE,
     connected |-> FALSE, writer |-> 0, open |-> {}, opened |-> 0,
     op |-> "none", raised |-> ""]

\* No HTTP/2 send method is waiting for a response.
NoWait ==
    [method |-> "none", stage |-> "idle", connected |-> FALSE, now |-> 0,
     attempt |-> 0, depth |-> 0, d0 |-> 0, d1 |-> 0, seen1 |-> FALSE,
     seen_more |-> FALSE, stored |-> NoStatus, ended |-> FALSE, gone |-> "",
     status |-> NoStatus, raised |-> ""]

\* No HTTP/1.1 response is being read.
NoRead ==
    [phase |-> "idle", header_chunks |-> 0, body_chunks |-> 0, passes |-> 0,
     eof |-> FALSE, outcome |-> ""]

\* The web front-end is not running.
NoFrontend ==
    [active_websockets |-> <<>>, sockets |-> <<>>, client_id |-> "", lines |-> 0,
     received |-> <<>>, dropped |-> 0]

ExtIdle ==
    /\ tp = NoTransport
    /\ hw = NoWait
    /\ rd = NoRead
    /\ ws = NoFrontend

\* The variables of the single operations, while none of them is exercised.
UnitIdle ==
    /\ ExtIdle
    /\ pipe = NoPipe
    /\ pcall = NoPipeCall
    /\ target = NoTarget
    /\ built = <<>>
    /\ cli = NoCli
    /\ run = NoRun

Init ==
    /\ opts \in Invocations
    /\ pc = "dispatch"
    /\ ti = 0
    /\ results = <<>>
    /\ te_headers = <<>>
    /\ i = 0
    /\ baseline = NoOutcome
    /\ result = NewResult(NoHeader)
    /\ vulnerable_headers = <<>>
    /\ h2_results = NewH2Results
    /\ ret = NoRet
    /\ client = NoClient
    /\ net = <<>>
    /\ hist = <<>>
    /\ h1 = [connected |-> FALSE, keep_alive |-> FALSE, used |-> FALSE]
    /\ wire = <<>>
    /\ call = NoCall
    /\ req = NoRequest
    /\ reply = NoReply
    /\ h2c = NewHTTP2Client(TRUE, FALSE)
    /\ frames = <<>>
    /\ h2call = NoH2Call
    /\ h2req = NoH2Request
    /\ inbox = <<>>
    /\ UnitIdle

\* The class being run.
Class == opts.types[ti]

IsH1(c) == c \in {"cl.te", "te.cl"}

\* ----------------------------------------------------------- class start
\* The catalogue test_cl_te / test_te_cl load before the baseline.
LoadCatalogue(c) ==
    IF opts.headers_file
    THEN (IF c = "cl.te" THEN LoadClTe(opts.file_data) ELSE LoadTeCl(opts.file_data))
    ELSE DefaultTeHeaders

\* The orchestrator's for loop takes the next class and calls its detector,
\* which first loads its catalogue.
StartClass ==
    /\ pc = "dispatch"
    /\ ti < Len(opts.types)
    /\ ti' = ti + 1
    /\ LET c == opts.types[ti + 1]
       IN  /\ te_headers' = IF IsH1(c) THEN LoadCatalogue(c) ELSE <<>>
           /\ pc' = IF IsH1(c) THEN "baseline" ELSE "h2_baseline"
    /\ i' = 0
    /\ baseline' = NoOutcome
    /\ result' = NewResult(NoHeader)
    /\ vulnerable_headers' = <<>>
    /\ h2_results' = NewH2Results
    /\ ret' = NoRet
    /\ client' = NoClient
    /\ net' = <<>>
    /\ hist' = <<>>
    /\ UNCHANGED <<h1vars, h2vars, unitvars>>
    /\ UNCHANGED <<opts, results>>

\* ------------------------------------------------------ CL.TE and TE.CL
\* The baseline GET on its own transport.  The try has a finally (close) and
\* no except: a connect failure, a timeout or a bad response leaves the
\* detector as an exception.
Baseline1 ==
    /\ pc = "baseline"
    /\ \E o \in BaselineOutcomes :
         LET cl0 == NewClient(net)
             log1 == net \o <<EvNew(cl0)>>
             cl1 == IF o.kind = "connect_error" THEN cl0 ELSE Connected(cl0, log1)
             log2 == IF o.kind = "connect_error" THEN log1 ELSE log1 \o EvConnect(cl0, log1)
             log3 == log2 \o (IF o.kind = "connect_error" THEN <<>>
                              ELSE H1SendEvents(cl1, log2, o, "baseline", 0))
             cl3 == IF o.kind = "connect_error" THEN cl0 ELSE H1SendClient(cl1, log2, o)
         IN  /\ baseline' = o
             /\ net' = log3 \o EvClose(cl3)
             /\ client' = Closed(cl3)
             /\ IF o.kind = "ok"
                THEN pc' = "loop" /\ ret' = ret
                ELSE pc' = "raised" /\ ret' = Raised(o.kind)
    /\ UNCHANGED <<h1vars, h2vars, unitvars>>
    /\ UNCHANGED <<opts, ti, results, te_headers, i, result, vulnerable_headers,
                   h2_results, hist>>

\* if result['timed_out']: send the confirmation request
NeedsConfirm(res) == res.timed_out

\* Variant: any probe answered with status 400 counts as a finding.
IsFinding1_Status400(res) == res.timed_out \/ res.vulnerable \/ res.status_code = 400

\* if result['timed_out'] or result.get('vulnerable', False): a finding
IsFinding1(res) == res.timed_out \/ res.vulnerable

\* Variant: the loop never breaks.
BreakOnFinding_Never(exit_first) == FALSE

\* if exit_first: break
BreakOnFinding(exit_first) == exit_first

\* The body of the for loop after test_*_with_header returned res for the
\* mutation te_header: where the scan goes on, the findings so far and the
\* exception, if one is raised.
Classify(res, te_header) ==
    IF ~IsFinding1(res)
    THEN [pc |-> "loop", vh |-> vulnerable_headers, ret |-> ret]
    ELSE IF "description" \notin DOMAIN te_header
    THEN [pc |-> "raised", vh |-> vulnerable_headers, ret |-> Raised("KeyError: 'description'")]
    ELSE [pc |-> IF BreakOnFinding(opts.exit_first) THEN "summary" ELSE "loop",
          vh |-> Append(vulnerable_headers,
                        [header |-> te_header, description |-> te_header.description]),
          ret |-> ret]

\* Variant: the probes share the transport they find.
ProbeClient_Reuse(log, current) == IF current.id = 0 THEN NewClient(log) ELSE current

\* The transport a probe is sent on: a new HTTP1Client for every call of
\* test_*_with_header.
ProbeClient(log, current) == NewClient(log)

\* One call of test_cl_te_with_header / test_te_cl_with_header up to the end
\* of the probe request, and, unless a confirmation follows, the rest of the
\* loop body.
Probe1 ==
    /\ pc = "loop"
    /\ i < Len(te_headers)
    /\ \E o \in ProbeOutcomes :
         LET m == i + 1
             te_header == te_headers[m]
             cl0 == ProbeClient(net, client)
             log1 == IF cl0.id > CountOp(net, "new") THEN net \o <<EvNew(cl0)>> ELSE net
             failed == o.kind = "connect_error"
             cl1 == IF failed THEN cl0 ELSE Connected(cl0, log1)
             log2 == IF failed THEN log1 ELSE log1 \o EvConnect(cl0, log1)
             log3 == IF failed THEN log2 ELSE log2 \o H1SendEvents(cl1, log2, o, "probe", m)
             cl3 == IF failed THEN cl0 ELSE H1SendClient(cl1, log2, o)
             res == CASE o.kind = "connect_error" ->
                           [NewResult(te_header) EXCEPT !.error = "Failed to connect"]
                      [] o.kind = "error" ->
                           [NewResult(te_header) EXCEPT !.error = "Invalid HTTP response"]
                      [] o.kind = "timeout" ->
                           [NewResult(te_header) EXCEPT !.timed_out = TRUE, !.test_time = o.time]
                      [] OTHER ->
                           [NewResult(te_header) EXCEPT !.status_code = o.status,
                                                        !.test_time = o.time]
             confirm == o.kind \in {"ok", "timeout"} /\ NeedsConfirm(res)
             next == Classify(res, te_header)
         IN  /\ i' = m
             /\ result' = res
             /\ hist' = Append(hist, [mut |-> m, probe |-> o, confirm |-> NoOutcome])
             /\ IF confirm
                THEN /\ pc' = "confirm"
                     /\ net' = log3
                     /\ client' = cl3
                     /\ UNCHANGED <<vulnerable_headers, ret>>
                ELSE /\ pc' = next.pc
                     /\ vulnerable_headers' = next.vh
                     /\ ret' = next.ret
                     /\ net' = log3 \o EvClose(cl3)
                     /\ client' = Closed(cl3)
    /\ UNCHANGED <<h1vars, h2vars, unitvars>>
    /\ UNCHANGED <<opts, ti, results, te_headers, baseline, h2_results>>

\* Variant: a failed reconnect counts as a timeout of the confirmation.
Confirm1_ConnectTimesOut ==
    /\ pc = "confirm"
    /\ \E o \in ConfirmOutcomes :
         LET te_header == te_headers[i]
             log1 == net \o H1SendEvents(client, net, o, "confirm", i)
             cl1 == H1SendClient(client, net, o)
             res == CASE o.kind = "ok" ->
                           [result EXCEPT !.confirm_timed_out = "False",
                                          !.confirm_status_code = o.status,
                                          !.confirm_time = o.time,
                                          !.vulnerable = TRUE]
                      [] o.kind = "timeout" ->
                           [result EXCEPT !.confirm_timed_out = "True"]
                      [] o.kind = "connect_error" ->
                           [result EXCEPT !.confirm_timed_out = "True"]
                      [] OTHER ->
                           [result EXCEPT !.confirm_error = "Invalid HTTP response"]
             next == Classify(res, te_header)
         IN  /\ result' = res
             /\ hist' = [hist EXCEPT ![Len(hist)].confirm = o]
             /\ net' = log1 \o EvClose(cl1)
             /\ client' = Closed(cl1)
             /\ pc' = next.pc
             /\ vulnerable_headers' = next.vh
             /\ ret' = next.ret
    /\ UNCHANGED <<h1vars, h2vars, unitvars>>
    /\ UNCHANGED <<opts, ti, results, te_headers, i, baseline, h2_results>>

\* The confirmation request of the same call, on the same transport, and the
\* rest of the loop body.
Confirm1 ==
    /\ pc = "confirm"
    /\ \E o \in ConfirmOutcomes :
         LET te_header == te_headers[i]
             log1 == net \o H1SendEvents(client, net, o, "confirm", i)
             cl1 == H1SendClient(client, net, o)
             res == CASE o.kind = "ok" ->
                           [result EXCEPT !.confirm_timed_out = "False",
                                          !.confirm_status_code = o.status,
                                          !.confirm_time = o.time,
                                          !.vulnerable = TRUE]
                      [] o.kind = "timeout" ->
                           [result EXCEPT !.confirm_timed_out = "True"]
                      [] o.kind = "connect_error" ->
                           [result EXCEPT !.confirm_error = "Failed to connect"]
                      [] OTHER ->
                           [result EXCEPT !.confirm_error = "Invalid HTTP response"]
             next == Classify(res, te_header)
         IN  /\ result' = res
             /\ hist' = [hist EXCEPT ![Len(hist)].confirm = o]
             /\ net' = log1 \o EvClose(cl1)
             /\ client' = Closed(cl1)
             /\ pc' = next.pc
             /\ vulnerable_headers' = next.vh
             /\ ret' = next.ret
    /\ UNCHANGED <<h1vars, h2vars, unitvars>>
    /\ UNCHANGED <<opts, ti, results, te_headers, i, baseline, h2_results>>

\* The "header" text of a finding.  CL.TE: name ":" escaped value.  TE.CL puts
\* the name and ": " in front of that same text.
FindingHeader(c, h) ==
    LET escaped_header == h.header_name \o <<":">> \o Escape(h.header_value)
    IN  IF c = "cl.te" THEN escaped_header
        ELSE h.header_name \o <<": ">> \o escaped_header

ClassType(c) == IF c = "cl.te" THEN "CL.TE" ELSE IF c = "te.cl" THEN "TE.CL" ELSE "h2.te"

\* findings.append({"description": ..., "header": ..., "type": ...})
Finding1(c, vh) ==
    [description |-> vh.description, header |-> FindingHeader(c, vh.header), type |-> ClassType(c)]

\* After the loop: the summary, and the findings list is returned.
Summarize1 ==
    /\ \/ pc = "summary"
       \/ pc = "loop" /\ i = Len(te_headers)
    /\ IsH1(Class)
    /\ ret' = Returned([k \in 1..Len(vulnerable_headers) |->
                          Finding1(Class, vulnerable_headers[k])])
    /\ pc' = "returned"
    /\ UNCHANGED <<h1vars, h2vars, unitvars>>
    /\ UNCHANGED <<opts, ti, results, te_headers, i, baseline, result,
                   vulnerable_headers, h2_results, client, net, hist>>

\* ------------------------------------------------------------------ H2.TE
\* HTTP2Client never raises on a stalled stream: _process_incoming_data
\* swallows the read timeout and the call returns, after the timeout, a
\* response whose status_code is None.
H2Completed(o) ==
    IF o.kind = "timeout" THEN Mk("ok", TimeoutT, NoStatus)
    ELSE IF o.kind = "closed" THEN Mk("ok", o.time, NoStatus)
    ELSE o

\* Connect of the first client, the baseline GET on it and the placement
\* filter.  A connect failure ends the class (outer except); an error of the
\* baseline request is recorded and the scan goes on with no baseline time.
BaselineH2 ==
    /\ pc = "h2_baseline"
    /\ \E o \in BaselineOutcomesH2 :
         LET cl0 == NewClient(net)
             log1 == net \o <<EvNew(cl0)>>
             failed == o.kind = "connect_error"
             cl1 == IF failed THEN cl0 ELSE Connected(cl0, log1)
             log2 == IF failed THEN log1
                     ELSE log1 \o EvConnect(cl0, log1)
                               \o <<Ev("write", cl1.id, cl1.conn, "baseline", 0)>>
         IN  /\ baseline' = H2Completed(o)
             /\ client' = cl1
             /\ net' = log2
             /\ h2_results' =
                  IF o.kind \in {"connect_error", "error"}
                  THEN [h2_results EXCEPT !.errors = Append(@, [error |-> o.kind])]
                  ELSE h2_results
             /\ IF failed
                THEN pc' = "h2_return" /\ te_headers' = te_headers
                ELSE pc' = "h2_loop" /\ te_headers' = FilterMutations(opts.payload_placement)
    /\ UNCHANGED <<h1vars, h2vars, unitvars>>
    /\ UNCHANGED <<opts, ti, results, i, result, vulnerable_headers, ret, hist>>

\* Variant: both thresholds are inclusive.
H2IsVulnerable_Inclusive(response_time, baseline_time, status) ==
    \/ response_time >= baseline_time * 3
    \/ /\ status \in {408, 400, 500}
       /\ 2 * response_time >= 3 * baseline_time

\* First detection method: response_time > baseline_response_time * 3.
\* Second: status in [408, 400, 500] and response_time > baseline * 1.5.
H2IsVulnerable(response_time, baseline_time, status) ==
    \/ response_time > baseline_time * 3
    \/ /\ status \in {408, 400, 500}
       /\ 2 * response_time > 3 * baseline_time

\* The reason text: the status reason is assigned last and replaces the other.
H2Reason(response_time, baseline_time, status) ==
    IF status \in {408, 400, 500} /\ 2 * response_time > 3 * baseline_time
    THEN "status code with increased response time"
    ELSE IF response_time > baseline_time * 3 THEN "more than 3x the baseline"
    ELSE "No delay detected"

\* The transport of one H2.TE probe: a fresh HTTP2Client for each test.
ProbeClientH2(log, current) == NewClient(log)

\* One iteration of the mutation loop of test_h2_te_vulnerability.
ProbeH2 ==
    /\ pc = "h2_loop"
    /\ i < Len(te_headers)
    /\ \E o \in ProbeOutcomes :
         LET m == i + 1
             mutation == te_headers[m]
             cl0 == ProbeClientH2(net, client)
             log1 == IF cl0.id > CountOp(net, "new") THEN net \o <<EvNew(cl0)>> ELSE net
             failed == o.kind = "connect_error" /\ ~cl0.connected
             cl1 == IF failed THEN cl0 ELSE Connected(cl0, log1)
             log2 == IF failed THEN log1
                     ELSE log1 \o EvConnect(cl0, log1)
                               \o <<Ev("write", cl1.id, cl1.conn, "probe", m)>>
             r == H2Completed(o)
             h2_headers == IF failed THEN <<>>
                           ELSE MalformedHeaderList(<<"POST">>, <<"/">>,
                                    H2TestHeaders(mutation, opts.payload_placement),
                                    <<>>, TRUE)
             \* baseline_response_time is unbound when the baseline request raised
             unbound == baseline.kind # "ok"
             err == CASE r.kind = "connect_error" -> "Failed to connect"
                      [] r.kind = "error" -> "protocol error"
                      [] unbound -> "baseline_response_time referenced before assignment"
                      [] OTHER -> ""
             is_vulnerable == err = "" /\ H2IsVulnerable(r.time, baseline.time, r.status)
             test_result ==
                 [is_vulnerable |-> is_vulnerable,
                  response_time |-> r.time,
                  baseline_time |-> baseline.time,
                  reason |-> H2Reason(r.time, baseline.time, r.status),
                  description |-> mutation.description,
                  header_name |-> mutation.header_name,
                  header_value |-> mutation.header_value,
                  placement_type |-> mutation.type]
         IN  /\ i' = m
             /\ hist' = Append(hist, [mut |-> m, probe |-> r, confirm |-> NoOutcome,
                                      headers |-> h2_headers])
             /\ net' = log2 \o EvClose(cl1)
             /\ client' = Closed(cl1)
             /\ h2_results' =
                  IF err # ""
                  THEN [h2_results EXCEPT !.errors =
                          Append(@, [description |-> mutation.description,
                                     header_name |-> mutation.header_name,
                                     header_value |-> mutation.header_value,
                                     error |-> err])]
                  ELSE IF is_vulnerable
                  THEN [h2_results EXCEPT !.findings = Append(@, test_result),
                                          !.vulnerable = TRUE]
                  ELSE h2_results
             /\ pc' = IF is_vulnerable /\ BreakOnFinding(opts.exit_first)
                      THEN "h2_return" ELSE "h2_loop"
    /\ UNCHANGED <<h1vars, h2vars, unitvars>>
    /\ UNCHANGED <<opts, ti, results, te_headers, baseline, result,
                   vulnerable_headers, ret>>

\* test_h2_te: the finding_details built from one entry of results['findings'].
FindingH2(f) ==
    [type |-> "h2.te",
     response_time |-> f.response_time,
     baseline_time |-> f.baseline_time,
     reason |-> f.reason,
     mutation_description |-> f.description,
     header_name |-> f.header_name,
     header_value |-> f.header_value,
     placement_type |-> f.placement_type]

\* The loop is over: the last client is closed once more (finally), results
\* is returned to test_h2_te, which returns the list of findings.
ReturnH2 ==
    /\ \/ pc = "h2_return"
       \/ pc = "h2_loop" /\ i = Len(te_headers)
    /\ LET fs == SelectSeq(h2_results.findings, LAMBDA f : f.is_vulnerable)
       IN  ret' = Returned([k \in 1..Len(fs) |-> FindingH2(fs[k])])
    /\ net' = net \o EvClose(client)
    /\ client' = Closed(client)
    /\ pc' = "returned"
    /\ UNCHANGED <<h1vars, h2vars, unitvars>>
    /\ UNCHANGED <<opts, ti, results, te_headers, i, baseline, result,
                   vulnerable_headers, h2_results, hist>>

\* ----------------------------------------------------------- orchestrator
\* if exit_first: break, after a class that returned findings
StopAfterFinding(exit_first) == exit_first

\* Variant: a detector that raised ends the scan.
Collect_StopOnError ==
    /\ pc \in {"returned", "raised"}
    /\ results' = (Class :> ret) @@ results
    /\ pc' = IF opts.mode = "scan"
                /\ ti < Len(opts.types)
                /\ ret.kind = "findings"
                /\ ~(ret.findings # <<>> /\ StopAfterFinding(opts.exit_first))
             THEN "dispatch" ELSE "done"
    /\ UNCHANGED <<h1vars, h2vars, unitvars>>
    /\ UNCHANGED <<opts, ti, te_headers, i, baseline, result, vulnerable_headers,
                   h2_results, ret, client, net, hist>>

\* The detector came back.  scan stores the findings under the class tag, or
\* "Error: ..." when the detector raised, and goes to the next class unless
\* exit_first stops it after findings; main() of a detector just ends.
Collect ==
    /\ pc \in {"returned", "raised"}
    /\ results' = (Class :> ret) @@ results
    /\ pc' = IF opts.mode = "scan"
                /\ ti < Len(opts.types)
                /\ ~(ret.kind = "findings" /\ ret.findings # <<>>
                     /\ StopAfterFinding(opts.exit_first))
             THEN "dispatch" ELSE "done"
    /\ UNCHANGED <<h1vars, h2vars, unitvars>>
    /\ UNCHANGED <<opts, ti, te_headers, i, baseline, result, vulnerable_headers,
                   h2_results, ret, client, net, hist>>

Next ==
    \/ StartClass
    \/ Baseline1
    \/ Probe1
    \/ Confirm1
    \/ Summarize1
    \/ BaselineH2
    \/ ProbeH2
    \/ ReturnH2
    \/ Collect

Spec == Init /\ [][Next]_vars

TypeOK ==
    /\ pc \in {"dispatch", "baseline", "loop", "confirm", "summary", "h2_baseline",
               "h2_loop", "h2_return", "returned", "raised", "done"}
    /\ ti \in 0..Len(opts.types)
    /\ i \in 0..Len(te_headers)

\* ------------------------------------------------- the HTTP/1.1 transport
\* HTTP1Client.connect: returns at once when connected; a failure or a
\* timeout raises ConnectionError.
HTTP1Client_connect ==
    /\ \E ok \in BOOLEAN :
          /\ h1' = IF h1.connected THEN h1
                   ELSE [h1 EXCEPT !.connected = ok, !.used = FALSE]
          /\ call' = [NoCall EXCEPT !.op = "connect",
                                    !.outcome = IF h1.connected \/ ok THEN "ok"
                                                ELSE "ConnectionError"]
    /\ wire' = <<>>
    /\ UNCHANGED <<scanvars, req, reply, h2vars, unitvars>>

\* HTTP1Client.close
HTTP1Client_close ==
    /\ h1' = [h1 EXCEPT !.connected = FALSE, !.used = FALSE]
    /\ call' = [NoCall EXCEPT !.op = "close", !.outcome = "ok"]
    /\ wire' = <<>>
    /\ UNCHANGED <<scanvars, req, reply, h2vars, unitvars>>

\* What can happen to one send_request before the response is read: the
\* connect fails, the write fails, or the request is sent.
SendOutcomes(connected) ==
    {"send_error", "sent"} \cup (IF connected THEN {} ELSE {"connect_error"})

\* What _parse_response meets.  On a fresh connection it is the peer's reply.
\* A connection that already carried a response holds the end of the stream
\* or what the earlier read left behind, none of which is a status line, or
\* nothing at all while the peer is silent.
ParseResults(c, r) ==
    IF c.connected /\ c.used
    THEN {ReadRaised("ValueError", "none")}
             \cup (IF r.ending = "stall" THEN {ReadRaised("TimeoutError", "none")}
                   ELSE {})
    ELSE {HTTP1Client_parse_response(r)}

\* HTTP1Client.send_request: connect when needed, pick the request bytes, hand
\* them to the socket, read the response; the connection is closed after a
\* response or a timeout unless keep_alive, and lost on a write error.
HTTP1Client_send_request ==
    \E o \in SendOutcomes(h1.connected), parsed \in ParseResults(h1, reply) :
        LET request_data == RequestData(req.method, req.path, req.headers,
                                        req.body, req.raw_request)
            outcome == IF o = "sent" THEN parsed.outcome ELSE "ConnectionError"
        IN  /\ wire' = IF o = "connect_error" THEN <<>> ELSE request_data
            /\ call' = [op |-> "send_request",
                        wrote |-> (o # "connect_error"),
                        outcome |-> outcome,
                        first |-> (o = "sent" /\ ~(h1.connected /\ h1.used)),
                        status |-> IF outcome = "ok" THEN reply.status ELSE NoStatus,
                        body |-> IF outcome = "ok" THEN parsed.body ELSE <<>>,
                        framing |-> IF o = "sent" THEN parsed.framing ELSE "none"]
            /\ h1' = IF o # "sent"
                     THEN [h1 EXCEPT !.connected = FALSE, !.used = FALSE]
                     ELSE IF outcome \in {"ok", "TimeoutError"}
                     THEN [h1 EXCEPT !.connected = h1.keep_alive,
                                     !.used = h1.keep_alive]
                     ELSE [h1 EXCEPT !.connected = TRUE, !.used = TRUE]
            /\ UNCHANGED <<scanvars, req, reply, h2vars, unitvars>>

\* The peer's replies.  The body bytes are a chunked stream of one chunk, cut
\* at every length.
ChunkedStream == <<"3", CR, LF, "x", "y", "z", CR, LF, "0", CR, LF, CR, LF>>

ReplyHeaderLists ==
    { <<>>,
      << <<<<"Content-Length">>, <<"3">>>> >>,
      << <<<<"Content-Length">>, <<"0">>>> >>,
      << <<<<"content-length">>, <<"-1">>>> >>,
      << <<<<"Content-Length">>, <<"abc">>>> >>,
      << <<<<"Transfer-Encoding">>, <<"chunked">>>> >>,
      << <<<<"TRANSFER-ENCODING">>, <<"gzip, Chunked">>>> >>,
      << <<<<"Transfer-Encoding">>, <<"identity">>>> >>,
      << <<<<"Content-Length">>, <<"5">>>>, <<<<"transfer-encoding">>, <<"chunked">>>> >>,
      << <<<<"Transfer-Encoding">>, <<"chunked">>>>, <<<<"Content-Length">>, <<"3">>>> >> }

Replies ==
    { [valid_status |-> v, status |-> IF v THEN 200 ELSE NoStatus, headers |-> h,
       cut |-> "none", body |-> SubSeq(ChunkedStream, 1, n), ending |-> e] :
          v \in BOOLEAN, h \in ReplyHeaderLists, n \in 0..Len(ChunkedStream),
          e \in {"close", "stall"} }
    \cup
    { [valid_status |-> TRUE, status |-> 200, headers |-> h, cut |-> c,
       body |-> <<>>, ending |-> e] :
          h \in ReplyHeaderLists, c \in {"status_line", "headers"},
          e \in {"close", "stall"} }

\* A complete response without a body, a peer that stays silent, and a peer
\* that does not answer with HTTP.
CannedReplies ==
    { [valid_status |-> TRUE, status |-> 200,
       headers |-> << <<<<"Content-Length">>, <<"0">>>> >>, cut |-> "none",
       body |-> <<>>, ending |-> "close"],
      [NoReply EXCEPT !.cut = "status_line", !.ending = "stall"],
      [NoReply EXCEPT !.ending = "close"] }

\* A GET without a body.
PlainGet ==
    [method |-> <<"GET">>, path |-> <<"/">>, headers |-> <<>>, body |-> None,
     raw_request |-> None]

\* An HTTP1Client as the `request` command builds it, before its first call,
\* and the request it is to send; no scan is running.
InitH1 ==
    /\ opts = [mode |-> "request", types |-> <<>>, exit_first |-> FALSE,
               headers_file |-> FALSE, file_data |-> <<>>, payload_placement |-> ""]
    /\ pc = "done"
    /\ ti = 0
    /\ results = <<>>
    /\ te_headers = <<>>
    /\ i = 0
    /\ baseline = NoOutcome
    /\ result = NewResult(NoHeader)
    /\ vulnerable_headers = <<>>
    /\ h2_results = NewH2Results
    /\ ret = NoRet
    /\ client = NoClient
    /\ net = <<>>
    /\ hist = <<>>
    /\ h1 \in [connected : {FALSE}, keep_alive : BOOLEAN, used : {FALSE}]
    /\ wire = <<>>
    /\ call = NoCall
    /\ req \in Requests
    /\ reply \in CannedReplies
    /\ h2c = NewHTTP2Client(TRUE, FALSE)
    /\ frames = <<>>
    /\ h2call = NoH2Call
    /\ h2req = NoH2Request
    /\ inbox = <<>>
    /\ UnitIdle

NextH1 ==
    \/ HTTP1Client_connect
    \/ HTTP1Client_close
    \/ HTTP1Client_send_request

SpecH1 == InitH1 /\ [][NextH1]_vars

\* An HTTP1Client before its first call and the reply of its peer.
InitH1Recv ==
    /\ opts = [mode |-> "request", types |-> <<>>, exit_first |-> FALSE,
               headers_file |-> FALSE, file_data |-> <<>>, payload_placement |-> ""]
    /\ pc = "done"
    /\ ti = 0
    /\ results = <<>>
    /\ te_headers = <<>>
    /\ i = 0
    /\ baseline = NoOutcome
    /\ result = NewResult(NoHeader)
    /\ vulnerable_headers = <<>>
    /\ h2_results = NewH2Results
    /\ ret = NoRet
    /\ client = NoClient
    /\ net = <<>>
    /\ hist = <<>>
    /\ h1 \in [connected : {FALSE}, keep_alive : BOOLEAN, used : {FALSE}]
    /\ wire = <<>>
    /\ call = NoCall
    /\ req = PlainGet
    /\ reply \in Replies
    /\ h2c = NewHTTP2Client(TRUE, FALSE)
    /\ frames = <<>>
    /\ h2call = NoH2Call
    /\ h2req = NoH2Request
    /\ inbox = <<>>
    /\ UnitIdle

SpecH1Recv == InitH1Recv /\ [][NextH1]_vars

\* ------------------------------------------------- HTTP/1.1 pipelining
\* Most requests one pipeline_requests call is given.
MaxPipe == 3

\* The (method, path, headers, body) tuples pipeline_requests is called with.
PipeRequests ==
    { [method |-> <<"GET">>, path |-> <<"/">>, headers |-> <<>>, body |-> None],
      [method |-> <<"POST">>, path |-> <<"/">>,
       headers |-> << <<<<"Content-Length">>, <<"4">>>> >>,
       body |-> Some(<<"0", CR, LF, CR, LF>>)] }

\* Responses that end where their framing says, so that the next response
\* starts right after them.
CompleteReplies ==
    { [valid_status |-> TRUE, status |-> 200,
       headers |-> << <<<<"Content-Length">>, <<"3">>>> >>, cut |-> "none",
       body |-> <<"x", "y", "z">>, ending |-> "close"],
      [valid_status |-> TRUE, status |-> 404,
       headers |-> << <<<<"Content-Length">>, <<"0">>>> >>, cut |-> "none",
       body |-> <<>>, ending |-> "close"] }

\* What the peer may send last: a complete response, bytes that are no status
\* line, or a response whose body stops short.
LastReplies ==
    CompleteReplies \cup
    { [NoReply EXCEPT !.body = <<"x">>],
      [valid_status |-> TRUE, status |-> 200,
       headers |-> << <<<<"Content-Length">>, <<"3">>>> >>, cut |-> "none",
       body |-> <<"x">>, ending |-> "close"] }

\* The peer of a pipelining client: the responses it sends, and whether it
\* then closes the connection or goes silent.
PipePeers ==
    { [replies |-> r, ending |-> e] :
        r \in UNION { { p \in [1..k -> LastReplies] :
                          \A j \in 1..(k - 1) : p[j] \in CompleteReplies } :
                      k \in 0..MaxPipe },
        e \in {"close", "stall"} }

Pipes ==
    { [requests |-> q, replies |-> p.replies, ending |-> p.ending] :
        q \in UNION { [1..k -> PipeRequests] : k \in 0..MaxPipe }, p \in PipePeers }

\* What the k-th _parse_response of a call finds on the stream: the peer's
\* k-th response, the last one followed by the peer's ending, and after the
\* last one the end of the stream or silence.
PipeReply(p, k) ==
    IF k < Len(p.replies) THEN p.replies[k]
    ELSE IF k = Len(p.replies) THEN [p.replies[k] EXCEPT !.ending = p.ending]
    ELSE IF p.ending = "stall" THEN [NoReply EXCEPT !.cut = "status_line", !.ending = "stall"]
    ELSE NoReply

\* responses.append((response_info, response_body))
ParsedResponse(r, parsed) == [error |-> "", status |-> r.status, body |-> parsed.body]

\* responses.append(({'error': str(e)}, b''))
ErrorMarker(exc) == [error |-> exc, status |-> NoStatus, body |-> <<>>]

\* The reading loop of pipeline_requests from its k-th pass on: one
\* _parse_response per request, and a break after the first that raises.
\* `first` is what the first _parse_response meets.
RECURSIVE ReadResponses_NoBreak(_, _, _, _)
ReadResponses_NoBreak(p, k, n, first) ==
    IF k > n THEN <<>>
    ELSE LET parsed == IF k = 1 THEN first ELSE HTTP1Client_parse_response(PipeReply(p, k))
         IN  IF parsed.outcome = "ok"
             THEN <<ParsedResponse(PipeReply(p, k), parsed)>>
                      \o ReadResponses_NoBreak(p, k + 1, n, first)
             ELSE <<ErrorMarker(parsed.outcome)>>
                      \o ReadResponses_NoBreak(p, k + 1, n, first)

RECURSIVE ReadResponses(_, _, _, _)
ReadResponses(p, k, n, first) ==
    IF k > n THEN <<>>
    ELSE LET parsed == IF k = 1 THEN first ELSE HTTP1Client_parse_response(PipeReply(p, k))
         IN  IF parsed.outcome = "ok"
             THEN <<ParsedResponse(PipeReply(p, k), parsed)>>
                      \o ReadResponses(p, k + 1, n, first)
             ELSE <<ErrorMarker(parsed.outcome)>>

\* The socket calls of one pipeline_requests call, in the order made: every
\* send_raw of the first loop, then every _parse_response of the second.
PipeTrace(written, read) ==
    [k \in 1..written |-> <<"write", k>>] \o [k \in 1..read |-> <<"read", k>>]

\* HTTP1Client.pipeline_requests: connect when needed, write every request,
\* then read one response per request until one cannot be parsed; close the
\* connection unless keep_alive.  A failed connect or write raises
\* ConnectionError out of the call.
HTTP1Client_pipeline_requests ==
    \E connect_ok \in (IF h1.connected THEN {TRUE} ELSE BOOLEAN),
       fail_at \in 0..Len(pipe.requests),
       first \in ParseResults(h1, PipeReply(pipe, 1)) :
        LET n == Len(pipe.requests)
            written == IF ~connect_ok THEN 0 ELSE IF fail_at = 0 THEN n ELSE fail_at
            sent == connect_ok /\ fail_at = 0
            request_data(k) == HTTP1Client_build_request(
                                   pipe.requests[k].method, pipe.requests[k].path,
                                   pipe.requests[k].headers, pipe.requests[k].body)
            responses == IF sent THEN ReadResponses(pipe, 1, n, first) ELSE <<>>
        IN  /\ wire' = Join([k \in 1..written |-> request_data(k)])
            /\ pcall' = [trace |-> PipeTrace(written, Len(responses)),
                         returned |-> sent,
                         responses |-> responses]
            /\ call' = [NoCall EXCEPT !.op = "pipeline_requests",
                                      !.wrote = (written > 0),
                                      !.outcome = IF sent THEN "ok" ELSE "ConnectionError"]
            /\ h1' = IF ~sent THEN [h1 EXCEPT !.connected = FALSE, !.used = FALSE]
                     ELSE [h1 EXCEPT !.connected = h1.keep_alive,
                                     !.used = h1.keep_alive
                                                 /\ (n > 0 \/ (h1.connected /\ h1.used))]
            /\ UNCHANGED <<scanvars, req, reply, h2vars, pipe, buildvars, clivars, extvars>>

\* An HTTP1Client before its first call, the requests to pipeline and the
\* peer that answers them.
InitH1Pipe ==
    /\ opts = [mode |-> "request", types |-> <<>>, exit_first |-> FALSE,
               headers_file |-> FALSE, file_data |-> <<>>, payload_placement |-> ""]
    /\ pc = "done"
    /\ ti = 0
    /\ results = <<>>
    /\ te_headers = <<>>
    /\ i = 0
    /\ baseline = NoOutcome
    /\ result = NewResult(NoHeader)
    /\ vulnerable_headers = <<>>
    /\ h2_results = NewH2Results
    /\ ret = NoRet
    /\ client = NoClient
    /\ net = <<>>
    /\ hist = <<>>
    /\ h1 \in [connected : {FALSE}, keep_alive : BOOLEAN, used : {FALSE}]
    /\ wire = <<>>
    /\ call = NoCall
    /\ req = NoRequest
    /\ reply = NoReply
    /\ h2c = NewHTTP2Client(TRUE, FALSE)
    /\ frames = <<>>
    /\ h2call = NoH2Call
    /\ h2req = NoH2Request
    /\ inbox = <<>>
    /\ pipe \in Pipes
    /\ pcall = NoPipeCall
    /\ target = NoTarget
    /\ built = <<>>
    /\ cli = NoCli
    /\ run = NoRun
    /\ ExtIdle

NextH1Pipe ==
    \/ HTTP1Client_connect
    \/ HTTP1Client_close
    \/ HTTP1Client_pipeline_requests

SpecH1Pipe == InitH1Pipe /\ [][NextH1Pipe]_vars

\* ------------------------------------------- the detectors' requests
\* Most custom headers (-H) one detector call is given.
MaxCustom == 2

\* Targets as urllib.parse.urlparse splits them: scheme, netloc, path and
\* query.
Urls ==
    [scheme : { "http", "https" },
     netloc : { <<"h">>, <<"h", ":", "8080">> },
     path : { <<>>, <<"/", "a">> },
     query : { <<>>, <<"x=1">> }]

\* custom_headers: (name, value) tuples as the command line hands them on.
CustomHeaderTuples ==
    { << <<"X-Custom">>, <<"1">> >>,
      << <<"cookie">>, <<"a=b">> >> }

CustomHeaderLists == UNION { [1..k -> CustomHeaderTuples] : k \in 0..MaxCustom }

\* A catalogue entry that carries extra_headers.
TeHeaderWithExtra ==
    [description |-> <<"Duplicate header">>,
     header_name |-> <<"Transfer-Encoding">>,
     header_value |-> <<"identity">>,
     extra_headers |-> << [header_name |-> <<"Transfer-encoding">>,
                           header_value |-> <<"chunked">>] >>]

\* The arguments of one detector call together with the catalogue entry its
\* loop has reached.  H2.TE reaches a mutation without a placement filter or
\* with the filter of the mutation's own type.
Targets ==
    { [class |-> c, url |-> u, custom_headers |-> h, te_header |-> t,
       payload_placement |-> ""] :
         c \in {"cl.te", "te.cl"}, u \in Urls, h \in CustomHeaderLists,
         t \in {DefaultTeHeaders[1], DefaultTeHeaders[2], TeHeaderWithExtra} }
    \cup
    { t \in { [class |-> "h2.te", url |-> u, custom_headers |-> h,
                te_header |-> H2Mutations[m], payload_placement |-> p] :
                  u \in Urls, h \in CustomHeaderLists, m \in 1..Len(H2Mutations),
                  p \in Placements } :
        t.payload_placement \in {"", t.te_header.type} }

\* path = parsed_url.path or '/'
UrlPath(url) == IF url.path = <<>> THEN <<"/">> ELSE url.path

\* H2.TE: path = parsed_url.path or '/', then '?' + query when there is one.
H2UrlPath(url) ==
    IF url.query # <<>> THEN UrlPath(url) \o <<"?">> \o url.query ELSE UrlPath(url)

\* host of test_cl_te_with_header: netloc up to its last ':'.
UrlHost(url) ==
    LET colons == { k \in 1..Len(url.netloc) : url.netloc[k] = ":" }
        last == CHOOSE k \in colons : \A l \in colons : l <= k
    IN  IF colons = {} THEN url.netloc ELSE SubSeq(url.netloc, 1, last - 1)

\* int(port_str) of the port texts the targets carry.
PortNumber(port_str) == IF port_str = <<"8080">> THEN 8080 ELSE 0

\* 443 if the scheme is https else 80
DefaultPort(url) == IF url.scheme = "https" THEN 443 ELSE 80

\* netloc.split(':')[0]
FirstPart(netloc) ==
    LET colons == { k \in 1..Len(netloc) : netloc[k] = ":" }
        first == CHOOSE k \in colons : \A l \in colons : k <= l
    IN  IF colons = {} THEN netloc ELSE SubSeq(netloc, 1, first - 1)

\* host and port of the test client of test_cl_te_with_header /
\* test_te_cl_with_header: the netloc split at its last ':', the default port
\* of the scheme without a ':'.
ProbeAddress(url) ==
    [host |-> UrlHost(url),
     port |-> IF UrlHost(url) # url.netloc
              THEN PortNumber(SubSeq(url.netloc, Len(UrlHost(url)) + 2, Len(url.netloc)))
              ELSE DefaultPort(url)]

\* host and port of baseline_client in test_cl_te / test_te_cl.
BaselineAddress(url) == [host |-> FirstPart(url.netloc), port |-> DefaultPort(url)]

\* host and port of the clients of the H2.TE detector: parsed_url.port or the
\* default port of the scheme.
H2Address(url) ==
    [host |-> FirstPart(url.netloc), port |-> ProbeAddress(url).port]

\* The extra_headers of a catalogue entry as header tuples, when it has any.
ExtraHeaders(te_header) ==
    IF "extra_headers" \in DOMAIN te_header
    THEN [k \in 1..Len(te_header.extra_headers) |->
             <<te_header.extra_headers[k].header_name,
               te_header.extra_headers[k].header_value>>]
    ELSE <<>>

\* headers of the probe of test_cl_te_with_header / test_te_cl_with_header.
ProbeHeaders(class, url, custom_headers, te_header) ==
    << << <<"Host">>, UrlHost(url) >>,
       << <<"Content-Type">>, <<"application/x-www-form-urlencoded">> >>,
       << <<"Content-Length">>, IF class = "cl.te" THEN <<"4">> ELSE <<"6">> >> >>
        \o custom_headers
        \o << <<te_header.header_name, te_header.header_value>> >>
        \o ExtraHeaders(te_header)

\* body of the probe: an unfinished chunked body (CL.TE), the last chunk and
\* one more byte (TE.CL).
ProbeBody(class) ==
    IF class = "cl.te" THEN <<"1", CR, LF, "Z", CR, LF, "Q", CR, LF>>
    ELSE <<"0", CR, LF, CR, LF, "X">>

\* Variant: the confirmation carries no custom headers.
ConfirmHeaders_NoCustom(class, url, custom_headers, te_header) ==
    << << <<"Host">>, UrlHost(url) >>,
       << <<"Content-Type">>, <<"application/x-www-form-urlencoded">> >>,
       << <<"Content-Length">>, IF class = "cl.te" THEN <<"11">> ELSE <<"5">> >> >>
        \o << <<te_header.header_name, te_header.header_value>> >>
        \o ExtraHeaders(te_header)

\* confirm_headers of the confirmation request.
ConfirmHeaders(class, url, custom_headers, te_header) ==
    << << <<"Host">>, UrlHost(url) >>,
       << <<"Content-Type">>, <<"application/x-www-form-urlencoded">> >>,
       << <<"Content-Length">>, IF class = "cl.te" THEN <<"11">> ELSE <<"5">> >> >>
        \o custom_headers
        \o << <<te_header.header_name, te_header.header_value>> >>
        \o ExtraHeaders(te_header)

\* confirm_body: the chunked body properly ended (CL.TE), `body` again (TE.CL).
ConfirmBody(class) ==
    IF class = "cl.te" THEN <<"1", CR, LF, "Z", CR, LF, "0", CR, LF, CR, LF>>
    ELSE ProbeBody(class)

\* request_headers of the H2.TE detector with the custom headers appended.
H2RequestHeadersWith(custom_headers) == H2RequestHeaders \o custom_headers

\* test_headers of one H2.TE probe, custom headers included.
H2TestHeadersWith(custom_headers, mutation, payload_placement) ==
    IF payload_placement \in {"normal_header", "custom_header_value",
                              "custom_header_name", "request_line"}
    THEN Append(H2RequestHeadersWith(custom_headers),
                <<mutation.header_name, mutation.header_value>>)
    ELSE H2RequestHeadersWith(custom_headers)

\* One request as the transport emits it: the header list of the HTTP/1.1
\* head or of the HEADERS frame, and for HTTP/1.1 the bytes written.  The
\* actions add the host and the port of the transport that sends it.
Http1Request(kind, method, path, headers, body) ==
    [kind |-> kind, method |-> method, path |-> path, headers |-> headers,
     body |-> body.bytes,
     data |-> HTTP1Client_build_request(method, path, headers, body)]

Http2Request(kind, method, path, h2_headers, body) ==
    [kind |-> kind, method |-> method, path |-> path, headers |-> h2_headers,
     body |-> body.bytes, data |-> <<>>]

\* The baseline request: GET with the Host header alone (CL.TE, TE.CL);
\* send_request GET with request_headers (H2.TE).
BaselineRequest ==
    /\ built = <<>>
    /\ built' =
         IF target.class = "h2.te"
         THEN <<Http2Request("baseline", <<"GET">>, H2UrlPath(target.url),
                    RequestHeaderList(<<"GET">>, H2UrlPath(target.url),
                        H2RequestHeadersWith(target.custom_headers), TRUE),
                    None) @@ H2Address(target.url)>>
         ELSE <<Http1Request("baseline", <<"GET">>, UrlPath(target.url),
                    << << <<"Host">>, target.url.netloc >> >>, None)
                  @@ BaselineAddress(target.url)>>
    /\ UNCHANGED <<scanvars, h1vars, h2vars, pipevars, target, clivars, extvars>>

\* The probe of the mutation: send_request POST (CL.TE, TE.CL);
\* send_malformed_headers POST with the body "0\r\n" (H2.TE).
ProbeRequest ==
    /\ Len(built) = 1
    /\ built' = Append(built,
         IF target.class = "h2.te"
         THEN Http2Request("probe", <<"POST">>, H2UrlPath(target.url),
                  MalformedHeaderList(<<"POST">>, H2UrlPath(target.url),
                      H2TestHeadersWith(target.custom_headers, target.te_header,
                                        target.payload_placement),
                      <<>>, TRUE),
                  Some(<<"0", CR, LF>>)) @@ H2Address(target.url)
         ELSE Http1Request("probe", <<"POST">>, UrlPath(target.url),
                  ProbeHeaders(target.class, target.url, target.custom_headers,
                               target.te_header),
                  Some(ProbeBody(target.class))) @@ ProbeAddress(target.url))
    /\ UNCHANGED <<scanvars, h1vars, h2vars, pipevars, target, clivars, extvars>>

\* The confirmation request CL.TE and TE.CL send after a probe that timed out.
ConfirmRequest ==
    /\ Len(built) = 2
    /\ target.class \in {"cl.te", "te.cl"}
    /\ built' = Append(built,
         Http1Request("confirm", <<"POST">>, UrlPath(target.url),
             ConfirmHeaders(target.class, target.url, target.custom_headers,
                            target.te_header),
             Some(ConfirmBody(target.class))) @@ ProbeAddress(target.url))
    /\ UNCHANGED <<scanvars, h1vars, h2vars, pipevars, target, clivars, extvars>>

\* One detector call and the mutation under test; nothing was sent yet.
InitBuild ==
    /\ opts = [mode |-> "request", types |-> <<>>, exit_first |-> FALSE,
               headers_file |-> FALSE, file_data |-> <<>>, payload_placement |-> ""]
    /\ pc = "done"
    /\ ti = 0
    /\ results = <<>>
    /\ te_headers = <<>>
    /\ i = 0
    /\ baseline = NoOutcome
    /\ result = NewResult(NoHeader)
    /\ vulnerable_headers = <<>>
    /\ h2_results = NewH2Results
    /\ ret = NoRet
    /\ client = NoClient
    /\ net = <<>>
    /\ hist = <<>>
    /\ h1 = [connected |-> FALSE, keep_alive |-> FALSE, used |-> FALSE]
    /\ wire = <<>>
    /\ call = NoCall
    /\ req = NoRequest
    /\ reply = NoReply
    /\ h2c = NewHTTP2Client(TRUE, FALSE)
    /\ frames = <<>>
    /\ h2call = NoH2Call
    /\ h2req = NoH2Request
    /\ inbox = <<>>
    /\ pipe = NoPipe
    /\ pcall = NoPipeCall
    /\ target \in Targets
    /\ built = <<>>
    /\ cli = NoCli
    /\ run = NoRun
    /\ ExtIdle

NextBuild ==
    \/ BaselineRequest
    \/ ProbeRequest
    \/ ConfirmRequest

SpecBuild == InitBuild /\ [][NextBuild]_vars

\* ------------------------------------------------- the scan command line
\* Most comma-separated parts the -t option of the model has.
MaxTypes == 2

\* The parts of a -t option between its commas.
TypeParts == {"cl.te", "h2.te", "h2.cl", " TE.CL", "xx", ""}

\* t.strip().lower() of one part.
StripLower(t) == IF t = " TE.CL" THEN "te.cl" ELSE t

\* What --h2-payload-placement is given as; "" is the option left out.
PlacementArgs == Placements \cup {"body"}

\* The command lines of the model: the URL given or not, -t left out or given
\* with up to MaxTypes parts, a placement.
CommandLines ==
    [url : BOOLEAN,
     type : {[given |-> FALSE, parts |-> <<>>]}
               \cup { [given |-> TRUE, parts |-> ps] :
                        ps \in UNION { [1..k -> TypeParts] : k \in 1..MaxTypes } },
     h2_payload_placement : PlacementArgs]

\* from src.detectors import ... of cli/main.py.
MainImports == {"cl_te_detector", "te_cl_detector", "h2_te_detector", "h2_cl_detector"}

\* The detector modules of the package src.detectors.
DetectorModules == {"cl_te_detector", "te_cl_detector", "h2_te_detector"}

\* detector_map: the module whose test function each class tag selects.
detector_map ==
    [c \in {"cl.te", "te.cl", "h2.te", "h2.cl"} |->
        CASE c = "cl.te" -> "cl_te_detector"
          [] c = "te.cl" -> "te_cl_detector"
          [] c = "h2.te" -> "h2_te_detector"
          [] c = "h2.cl" -> "h2_cl_detector"]

\* list(detector_map.keys())
AllTypes == <<"cl.te", "te.cl", "h2.te", "h2.cl">>

\* click.Choice of --h2-payload-placement.
PlacementAccepted(p) ==
    p \in {"", "normal_header", "custom_header_value", "custom_header_name", "request_line"}

\* vulnerability_types as scan first computes it: the parts stripped and
\* lower-cased, empty ones dropped, and every detector when nothing is left.
RequestedTypes(type) ==
    LET parts == [k \in 1..Len(type.parts) |-> StripLower(type.parts[k])]
        named == IF type.given THEN SelectSeq(parts, LAMBDA t : t # "") ELSE <<>>
    IN  IF named = <<>> THEN AllTypes ELSE named

\* Variant: every detector is run when no requested type is known.
SelectTypes_RunAll(requested) ==
    LET valid == SelectSeq(requested, LAMBDA t : t \in DOMAIN detector_map)
    IN  [exit |-> FALSE,
         invalid_types |-> SelectSeq(requested, LAMBDA t : t \notin DOMAIN detector_map),
         vulnerability_types |-> IF valid = <<>> THEN AllTypes ELSE valid]

\* "Validate vulnerability types": unknown types are warned about and
\* filtered out; the command exits when none is left.
SelectTypes(requested) ==
    LET valid == SelectSeq(requested, LAMBDA t : t \in DOMAIN detector_map)
    IN  [exit |-> (valid = <<>>),
         invalid_types |-> SelectSeq(requested, LAMBDA t : t \notin DOMAIN detector_map),
         vulnerability_types |-> valid]

\* Importing cli/main.py: its import of the detector modules raises
\* ImportError when one of them does not exist.
ImportMain ==
    /\ run.stage = "start"
    /\ run' = [run EXCEPT !.stage = IF MainImports \subseteq DetectorModules
                                    THEN "invoked" ELSE "ImportError"]
    /\ UNCHANGED <<scanvars, h1vars, h2vars, pipevars, buildvars, cli, extvars>>

\* scan up to its loop: click checks the options, then the URL and the class
\* list are processed.
ScanSetup ==
    /\ run.stage = "invoked"
    /\ LET sel == SelectTypes(RequestedTypes(cli.type))
       IN  run' = IF ~PlacementAccepted(cli.h2_payload_placement)
                  THEN [run EXCEPT !.stage = "usage_error"]
                  ELSE IF ~cli.url THEN [run EXCEPT !.stage = "exit"]
                  ELSE IF sel.exit
                  THEN [run EXCEPT !.stage = "exit", !.invalid_types = sel.invalid_types]
                  ELSE [run EXCEPT !.stage = "loop",
                                   !.invalid_types = sel.invalid_types,
                                   !.vulnerability_types = sel.vulnerability_types]
    /\ UNCHANGED <<scanvars, h1vars, h2vars, pipevars, buildvars, cli, extvars>>

\* One pass of the loop over vulnerability_types: the detector of the class
\* is called and opens its first connection.
RunClass ==
    /\ run.stage = "loop"
    /\ LET k == Len(run.started) + 1
       IN  run' = [run EXCEPT !.started = Append(@, run.vulnerability_types[k]),
                              !.connections = @ + 1,
                              !.stage = IF k = Len(run.vulnerability_types)
                                        THEN "done" ELSE "loop"]
    /\ UNCHANGED <<scanvars, h1vars, h2vars, pipevars, buildvars, cli, extvars>>

\* No scan of the orchestrator model, no transport call and no detector call
\* is under way.
OnlyUnits ==
    /\ opts = [mode |-> "request", types |-> <<>>, exit_first |-> FALSE,
               headers_file |-> FALSE, file_data |-> <<>>, payload_placement |-> ""]
    /\ pc = "done"
    /\ ti = 0
    /\ results = <<>>
    /\ te_headers = <<>>
    /\ i = 0
    /\ baseline = NoOutcome
    /\ result = NewResult(NoHeader)
    /\ vulnerable_headers = <<>>
    /\ h2_results = NewH2Results
    /\ ret = NoRet
    /\ client = NoClient
    /\ net = <<>>
    /\ hist = <<>>
    /\ h1 = [connected |-> FALSE, keep_alive |-> FALSE, used |-> FALSE]
    /\ wire = <<>>
    /\ call = NoCall
    /\ req = NoRequest
    /\ reply = NoReply
    /\ h2c = NewHTTP2Client(TRUE, FALSE)
    /\ frames = <<>>
    /\ h2call = NoH2Call
    /\ h2req = NoH2Request
    /\ inbox = <<>>
    /\ pipe = NoPipe
    /\ pcall = NoPipeCall
    /\ target = NoTarget
    /\ built = <<>>

OnlyCli ==
    /\ OnlyUnits
    /\ ExtIdle

\* Nothing but the objects followed one by one below is in use.
OnlyExt ==
    /\ OnlyUnits
    /\ cli = NoCli
    /\ run = NoRun

\* The command `scan` is typed; cli/main.py is not imported yet.
InitImport ==
    /\ OnlyCli
    /\ cli \in CommandLines
    /\ run = [NoRun EXCEPT !.stage = "start"]

NextImport == ImportMain

SpecImport == InitImport /\ [][NextImport]_vars

\* scan is entered with its options; the imports of cli/main.py are taken as
\* resolved.
InitScanArgs ==
    /\ OnlyCli
    /\ cli \in CommandLines
    /\ run = [NoRun EXCEPT !.stage = "invoked"]

NextScanArgs ==
    \/ ScanSetup
    \/ RunClass

SpecScanArgs == InitScanArgs /\ [][NextScanArgs]_vars

\* --------------------------------------------------- the HTTP/2 transport
\* Events h2 hands to the client.
ResponseReceived(stream, status) ==
    [type |-> "ResponseReceived", stream |-> stream, status |-> status, data |-> <<>>]
DataReceived(stream, data) ==
    [type |-> "DataReceived", stream |-> stream, status |-> NoStatus, data |-> data]
StreamEnded(stream) ==
    [type |-> "StreamEnded", stream |-> stream, status |-> NoStatus, data |-> <<>>]
StreamReset(stream) ==
    [type |-> "StreamReset", stream |-> stream, status |-> NoStatus, data |-> <<>>]

\* receive_data raises a ProtocolError on a frame of a stream the client
\* never opened; the events of that read are lost.
BatchAccepted(c, batch) ==
    \A k \in 1..Len(batch) : batch[k].stream < c.next_stream

\* The payloads of the DATA events of a stream, in arrival order.
RECURSIVE StreamData(_, _)
StreamData(batch, stream_id) ==
    IF batch = <<>> THEN <<>>
    ELSE (IF Head(batch).type = "DataReceived" /\ Head(batch).stream = stream_id
          THEN Head(batch).data ELSE <<>>) \o StreamData(Tail(batch), stream_id)

\* Variant: the events of every stream are kept.
OwnEvents_Any(batch, stream_id) == batch

\* [e for e in new_events if hasattr(e, 'stream_id') and e.stream_id == stream_id]
OwnEvents(batch, stream_id) == SelectSeq(batch, LAMBDA e : e.stream = stream_id)

\* _process_incoming_data, "Save events and data for the specific stream".
StoreBatch(c, stream_id, batch) ==
    [c EXCEPT !.response_events[stream_id] = @ \o OwnEvents(batch, stream_id),
              !.response_data[stream_id] = @ \o StreamData(batch, stream_id),
              !.response_streams[stream_id] =
                  @ \/ \E k \in 1..Len(batch) :
                          /\ batch[k].type \in {"StreamEnded", "StreamReset"}
                          /\ batch[k].stream = stream_id]

\* _process_incoming_data(stream_id): one read; a timeout (nothing left to
\* read) or an error returns; otherwise the events are stored and, while the
\* stream has not ended, the method calls itself.
RECURSIVE ProcessIncoming(_, _, _)
ProcessIncoming(c, stream_id, box) ==
    IF box = <<>> THEN [c |-> c, box |-> box]
    ELSE IF ~BatchAccepted(c, Head(box)) THEN [c |-> c, box |-> Tail(box)]
    ELSE LET c1 == StoreBatch(c, stream_id, Head(box))
         IN  IF c1.response_streams[stream_id] THEN [c |-> c1, box |-> Tail(box)]
             ELSE ProcessIncoming(c1, stream_id, Tail(box))

\* A ResponseReceived event of the stream was stored.
HasResponse(c, stream_id) ==
    \E k \in 1..Len(c.response_events[stream_id]) :
        c.response_events[stream_id][k].type = "ResponseReceived"

\* send_request, "Wait for response with timeout": up to max_attempts rounds
\* of _process_incoming_data, left as soon as a response was received.
RECURSIVE WaitForResponse(_, _, _, _)
WaitForResponse(attempts, c, stream_id, box) ==
    IF attempts = 0 THEN [c |-> c, box |-> box]
    ELSE LET r == ProcessIncoming(c, stream_id, box)
         IN  IF HasResponse(r.c, stream_id) THEN r
             ELSE WaitForResponse(attempts - 1, r.c, stream_id, r.box)

\* _parse_response: status_code is None unless a ResponseReceived event of the
\* stream carries :status (the last one wins); the body is the stream's data.
RECURSIVE LastStatus(_, _)
LastStatus(events, status) ==
    IF events = <<>> THEN status
    ELSE LastStatus(Tail(events),
                    IF Head(events).type = "ResponseReceived"
                    THEN Head(events).status ELSE status)

H2ParseResponse(c, stream_id) ==
    [status |-> LastStatus(c.response_events[stream_id], NoStatus),
     body |-> c.response_data[stream_id]]

\* HTTP2Client.connect
HTTP2Client_connect ==
    /\ \E env \in ConnectEnvs(h2c) :
          /\ h2c' = AfterConnect(h2c, env)
          /\ h2call' = [NoH2Call EXCEPT
                           !.op = "connect",
                           !.was_connected = h2c.connected,
                           !.tcp = env.tcp, !.alpn = env.alpn,
                           !.settings = env.settings,
                           !.outcome = IF AfterConnect(h2c, env).connected THEN "ok"
                                       ELSE "ConnectionError"]
    /\ frames' = <<>>
    /\ UNCHANGED <<scanvars, h1vars, unitvars, h2req, inbox>>

\* HTTP2Client.close
HTTP2Client_close ==
    /\ h2c' = AfterClose(h2c)
    /\ h2call' = [NoH2Call EXCEPT !.op = "close", !.outcome = "ok",
                                  !.was_connected = h2c.connected]
    /\ frames' = <<>>
    /\ UNCHANGED <<scanvars, h1vars, unitvars, h2req, inbox>>

\* The common course of the three send methods: connect when needed, open a
\* stream, write the frames, read, parse.  `sent` is the frames written,
\* `raised` the exception that ends the call after the write, `wait` the
\* number of read rounds.  A stream identifier is used up by its HEADERS
\* frame, so a call that wrote nothing leaves it to the next call.
H2Send(op, env, sent, raised, wait) ==
    LET c0 == AfterConnect(h2c, env)
        stream_id == c0.next_stream
        c1 == OpenStream(c0)
        r == WaitForResponse(wait, c1, stream_id, inbox)
        parsed == H2ParseResponse(r.c, stream_id)
    IN  IF ~c0.connected
        THEN /\ h2c' = c0
             /\ frames' = <<>>
             /\ inbox' = inbox
             /\ h2call' = [NoH2Call EXCEPT !.op = op, !.outcome = "ConnectionError",
                                           !.was_connected = h2c.connected]
        ELSE IF raised # ""
        THEN /\ h2c' = IF sent = <<>> THEN [c1 EXCEPT !.next_stream = stream_id] ELSE c1
             /\ frames' = sent
             /\ inbox' = inbox
             /\ h2call' = [NoH2Call EXCEPT !.op = op, !.outcome = raised,
                                           !.was_connected = h2c.connected,
                                           !.stream = stream_id]
        ELSE /\ h2c' = r.c
             /\ frames' = sent
             /\ inbox' = r.box
             /\ h2call' = [NoH2Call EXCEPT !.op = op, !.outcome = "ok",
                                           !.was_connected = h2c.connected,
                                           !.stream = stream_id,
                                           !.status = parsed.status,
                                           !.body = parsed.body,
                                           !.ended = r.c.response_streams[stream_id]]

\* HTTP2Client.send_request
HTTP2Client_send_request ==
    /\ h2c.connected => h2c.next_stream <= 2 * MaxStreams - 1
    /\ \E env \in ConnectEnvs(h2c) :
          H2Send("send_request", env,
                 RequestFrames(AfterConnect(h2c, env).next_stream, h2req, h2c.use_tls),
                 "", 3)
    /\ UNCHANGED <<scanvars, h1vars, unitvars, h2req>>

\* HTTP2Client.send_malformed_headers
HTTP2Client_send_malformed_headers ==
    /\ h2c.connected => h2c.next_stream <= 2 * MaxStreams - 1
    /\ \E env \in ConnectEnvs(h2c) :
          H2Send("send_malformed_headers", env,
                 MalformedFrames(AfterConnect(h2c, env).next_stream, h2req, h2c.use_tls),
                 "", 1)
    /\ UNCHANGED <<scanvars, h1vars, unitvars, h2req>>

\* HTTP2Client.send_padded_data: len(body) in the log line raises TypeError
\* when body is None, before anything is written.
HTTP2Client_send_padded_data ==
    /\ h2c.connected => h2c.next_stream <= 2 * MaxStreams - 1
    /\ \E env \in ConnectEnvs(h2c), import \in ImportOutcomes :
          H2Send("send_padded_data", env,
                 IF ~h2req.body.some THEN <<>>
                 ELSE PaddedFrames(AfterConnect(h2c, env).next_stream, h2req,
                                   h2c.use_tls, import),
                 IF ~h2req.body.some THEN "TypeError"
                 ELSE IF Truthy(h2req.body) /\ import = "ImportError"
                      THEN "ImportError" ELSE "",
                 1)
    /\ UNCHANGED <<scanvars, h1vars, unitvars, h2req>>

\* The calls the model makes on an HTTP/2 client.
H2HeaderTuples ==
    { <<<<"X-Custom">>, <<"a">>>>, <<<<":method">>, <<"PUT">>>>,
      <<<<":x-new">>, <<"v">>>> }

H2HeaderLists ==
    UNION { [1..n -> H2HeaderTuples] : n \in 0..MaxH2Headers }

H2PseudoHeaderLists ==
    { <<>>,
      << <<<<":method">>, <<"POST">>>> >>,
      << <<<<":path">>, <<"/", "admin">>>>, <<<<":method">>, <<"POST">>>> >> }

H2Bodies == { None, Some(<<>>), Some(<<"0", CR, LF>>) }

H2Requests ==
    [method : Methods, path : { <<"/">> }, headers : H2HeaderLists,
     pseudo_headers : H2PseudoHeaderLists, body : H2Bodies,
     end_stream : BOOLEAN, padding_length : {2}]

\* The call an H2.TE probe makes: a POST with the body "0\r\n" and no
\* end_stream argument, which defaults to False.
H2ProbeRequest(test_headers) ==
    [method |-> <<"POST">>, path |-> <<"/">>, headers |-> test_headers,
     pseudo_headers |-> <<>>, body |-> Some(<<"0", CR, LF>>),
     end_stream |-> FALSE, padding_length |-> 0]

\* A complete answer on the first stream.
AnswerOnFirstStream ==
    << <<ResponseReceived(1, 200), DataReceived(1, <<"ok">>), StreamEnded(1)>> >>

\* What one read of the socket can yield.
Batches ==
    { <<ResponseReceived(1, 200)>>,
      <<DataReceived(1, <<"a">>)>>,
      <<StreamEnded(1)>>,
      <<StreamReset(1)>>,
      <<ResponseReceived(3, 404), DataReceived(3, <<"b">>)>>,
      <<DataReceived(1, <<"c">>), DataReceived(3, <<"d">>), StreamEnded(3)>>,
      <<ResponseReceived(1, 200), DataReceived(1, <<"a">>), DataReceived(1, <<"b">>)>>,
      <<StreamReset(3)>> }

Inboxes == UNION { [1..n -> Batches] : n \in 0..MaxInbox }

\* A POST with a body over clear text.
PlainPost ==
    [method |-> <<"POST">>, path |-> <<"/">>, headers |-> <<>>,
     pseudo_headers |-> <<>>, body |-> Some(<<"0", CR, LF>>),
     end_stream |-> TRUE, padding_length |-> 2]

\* No scan is running and no HTTP/1.1 client is in use.
OnlyHTTP2 ==
    /\ opts = [mode |-> "request", types |-> <<>>, exit_first |-> FALSE,
               headers_file |-> FALSE, file_data |-> <<>>, payload_placement |-> ""]
    /\ pc = "done"
    /\ ti = 0
    /\ results = <<>>
    /\ te_headers = <<>>
    /\ i = 0
    /\ baseline = NoOutcome
    /\ result = NewResult(NoHeader)
    /\ vulnerable_headers = <<>>
    /\ h2_results = NewH2Results
    /\ ret = NoRet
    /\ client = NoClient
    /\ net = <<>>
    /\ hist = <<>>
    /\ h1 = [connected |-> FALSE, keep_alive |-> FALSE, used |-> FALSE]
    /\ wire = <<>>
    /\ call = NoCall
    /\ req = NoRequest
    /\ reply = NoReply

\* An HTTP2Client after construction and the request it is to send; the peer
\* answers the first stream.
InitH2 ==
    /\ OnlyHTTP2
    /\ h2c \in { NewHTTP2Client(t, FALSE) : t \in BOOLEAN }
    /\ frames = <<>>
    /\ h2call = NoH2Call
    /\ h2req \in H2Requests
    /\ inbox = AnswerOnFirstStream
    /\ UnitIdle

\* An HTTP2Client of every construction, to be connected.
InitH2Connect ==
    /\ OnlyHTTP2
    /\ h2c \in { NewHTTP2Client(t, f) : t \in BOOLEAN, f \in BOOLEAN }
    /\ frames = <<>>
    /\ h2call = NoH2Call
    /\ h2req = PlainPost
    /\ inbox = AnswerOnFirstStream
    /\ UnitIdle

\* A clear-text HTTP2Client and what the peer sends, read by read.
InitH2Recv ==
    /\ OnlyHTTP2
    /\ h2c = NewHTTP2Client(FALSE, FALSE)
    /\ frames = <<>>
    /\ h2call = NoH2Call
    /\ h2req = PlainPost
    /\ inbox \in Inboxes
    /\ UnitIdle

NextH2 ==
    \/ HTTP2Client_connect
    \/ HTTP2Client_close
    \/ HTTP2Client_send_request
    \/ HTTP2Client_send_malformed_headers
    \/ HTTP2Client_send_padded_data

SpecH2 == InitH2 /\ [][NextH2]_vars

SpecH2Connect == InitH2Connect /\ [][NextH2]_vars

SpecH2Recv == InitH2Recv /\ [][NextH2]_vars

\* ------------------------------------------ the HTTP/2 client's test script
\* The methods the class HTTP2Client defines or inherits from BaseClient.
HTTP2ClientMethods ==
    {"__init__", "connect", "close", "is_connected", "send_raw", "receive_raw",
     "_process_incoming_data", "send_request", "send_malformed_headers",
     "send_padded_data", "_parse_response"}

\* client.<name>(...): the call of an attribute the class does not define
\* raises AttributeError before anything is done.
MethodLookup(name) == IF name \in HTTP2ClientMethods THEN "found" ELSE "AttributeError"

\* The arguments test_content_length_mismatch and its like call
\* send_partial_body with: a body and a declared content length.
PartialBodyRequests ==
    [method : { <<"POST">> }, path : { <<"/">> }, headers : H2HeaderLists,
     pseudo_headers : { <<>> }, body : { Some(<<"a", "b", "c">>), Some(<<>>) },
     end_stream : BOOLEAN, padding_length : {0}, content_length : {3, 10}]

\* client.send_partial_body(method, path, headers, body, content_length,
\* end_stream) as test_content_length_mismatch calls it.
HTTP2Client_send_partial_body ==
    /\ h2call' = [NoH2Call EXCEPT !.op = "send_partial_body",
                                  !.outcome = MethodLookup("send_partial_body"),
                                  !.was_connected = h2c.connected]
    /\ frames' = <<>>
    /\ UNCHANGED h2c
    /\ UNCHANGED <<scanvars, h1vars, unitvars, h2req, inbox>>

\* An HTTP2Client as test_http2_client.py builds it and the arguments of the
\* partial body test.
InitH2Test ==
    /\ OnlyHTTP2
    /\ h2c \in { NewHTTP2Client(t, TRUE) : t \in BOOLEAN }
    /\ frames = <<>>
    /\ h2call = NoH2Call
    /\ h2req \in PartialBodyRequests
    /\ inbox = AnswerOnFirstStream
    /\ UnitIdle

NextH2Test ==
    \/ HTTP2Client_connect
    \/ HTTP2Client_close
    \/ HTTP2Client_send_partial_body

SpecH2Test == InitH2Test /\ [][NextH2Test]_vars

\* ------------------------------------------------ the transports' sockets
\* Most sockets one transport object opens in a run.
MaxSockets == 3

\* What asyncio.open_connection and the HTTP/2 handshake can meet: the
\* connection is made, refused, not made within connect_timeout, made with an
\* ALPN protocol other than h2, or lost while the preface is written.
H1ConnectOutcomes == {"ok", "refused", "timeout"}

H2ConnectOutcomes == {"ok", "refused", "timeout", "alpn_http1", "reset"}

\* writer.write / writer.drain: the bytes are taken, or the connection is lost.
WriteOutcomes == {"ok", "reset"}

\* How _parse_response of HTTP1Client ends.
ParseOutcomes == {"ok", "TimeoutError", "ValueError", "ConnectionError"}

NewTransport(class, use_tls, force_http2, keep_alive) ==
    [NoTransport EXCEPT !.class = class, !.use_tls = use_tls,
                        !.force_http2 = force_http2, !.keep_alive = keep_alive]

\* asyncio.open_connection returned a reader and a writer.
OpenSocket(t) ==
    [t EXCEPT !.opened = @ + 1, !.writer = t.opened + 1, !.open = @ \cup {t.opened + 1}]

\* The connection is lost: the event loop closes the socket of the writer.
LoseSocket(t) == [t EXCEPT !.open = @ \ {t.writer}]

RaiseT(t, exc) == [t EXCEPT !.raised = exc]

\* A write on the writer: it fails when the connection is lost, now or before.
WriteResult(t, wenv) == IF t.writer \in t.open THEN wenv ELSE "reset"

H1Sock_connect(t, env) ==
    IF t.connected THEN t
    ELSE IF env = "ok" THEN [OpenSocket(t) EXCEPT !.connected = TRUE]
    ELSE RaiseT(t, "ConnectionError")

H1Sock_close(t) ==
    IF ~t.connected \/ t.writer = 0 THEN t
    ELSE [t EXCEPT !.open = @ \ {t.writer}, !.connected = FALSE, !.writer = 0]

H1Sock_send_raw(t, cenv, wenv) ==
    LET c == IF ~t.connected \/ t.writer = 0 THEN H1Sock_connect(t, cenv) ELSE t
    IN  IF c.raised # "" THEN c
        ELSE IF WriteResult(c, wenv) = "ok" THEN c
        ELSE RaiseT([LoseSocket(c) EXCEPT !.connected = FALSE], "ConnectionError")

H1Sock_send_request(t, cenv, wenv, outcome) ==
    LET c == IF ~t.connected THEN H1Sock_connect(t, cenv) ELSE t
        s == IF c.raised # "" THEN c ELSE H1Sock_send_raw(c, cenv, wenv)
        closed == IF ~s.keep_alive THEN H1Sock_close(s) ELSE s
    IN  IF s.raised # "" THEN s
        ELSE CASE outcome = "ok" -> closed
               [] outcome = "TimeoutError" -> RaiseT(closed, "TimeoutError")
               [] outcome = "ValueError" -> RaiseT(s, "ValueError")
               [] OTHER -> RaiseT(LoseSocket(s), "ConnectionError")

H2Sock_close(t) ==
    IF ~t.connected \/ t.writer = 0 THEN t
    ELSE [t EXCEPT !.open = @ \ {t.writer}, !.connected = FALSE, !.writer = 0]

H2Sock_connect(t, env) ==
    IF t.connected THEN t
    ELSE IF env \in {"refused", "timeout"} THEN RaiseT(t, "ConnectionError")
    ELSE LET o == OpenSocket(t)
         IN  IF t.use_tls /\ env = "alpn_http1" /\ ~t.force_http2
                 THEN RaiseT(H2Sock_close(o), "ConnectionError")
             ELSE IF env = "reset" THEN RaiseT(LoseSocket(o), "ConnectionError")
             ELSE [o EXCEPT !.connected = TRUE]

H2Sock_send_raw(t, cenv, wenv) ==
    LET c == IF ~t.connected \/ t.writer = 0 THEN H2Sock_connect(t, cenv) ELSE t
    IN  IF c.raised # "" THEN c
        ELSE IF WriteResult(c, wenv) = "ok" THEN c
        ELSE RaiseT([LoseSocket(c) EXCEPT !.connected = FALSE], "ConnectionError")

\* send_request of HTTP2Client opens through connect and closes nothing; an
\* error of its writes is not caught.
H2Sock_send_request(t, cenv, wenv) ==
    LET c == IF ~t.connected THEN H2Sock_connect(t, cenv) ELSE t
    IN  IF c.raised # "" THEN c
        ELSE IF WriteResult(c, wenv) = "ok" THEN c
        ELSE RaiseT(LoseSocket(c), "ConnectionResetError")

\* A call starts with nothing raised.
Calling(op) == [tp EXCEPT !.op = op, !.raised = ""]

ConnectOutcomesOf(t) ==
    IF t.class = "HTTP1Client" THEN H1ConnectOutcomes
    ELSE IF t.use_tls THEN H2ConnectOutcomes ELSE H2ConnectOutcomes \ {"alpn_http1"}

Transport_connect ==
    /\ tp.class # "none"
    /\ tp.opened < MaxSockets
    /\ \E env \in ConnectOutcomesOf(tp) :
           tp' = IF tp.class = "HTTP1Client" THEN H1Sock_connect(Calling("connect"), env)
                 ELSE H2Sock_connect(Calling("connect"), env)
    /\ UNCHANGED <<scanvars, h1vars, h2vars, pipevars, buildvars, clivars, hw, rd, ws>>

Transport_close ==
    /\ tp.class # "none"
    /\ tp' = IF tp.class = "HTTP1Client" THEN H1Sock_close(Calling("close"))
             ELSE H2Sock_close(Calling("close"))
    /\ UNCHANGED <<scanvars, h1vars, h2vars, pipevars, buildvars, clivars, hw, rd, ws>>

Transport_send_raw ==
    /\ tp.class # "none"
    /\ tp.opened < MaxSockets
    /\ \E cenv \in ConnectOutcomesOf(tp), wenv \in WriteOutcomes :
           tp' = IF tp.class = "HTTP1Client"
                     THEN H1Sock_send_raw(Calling("send_raw"), cenv, wenv)
                 ELSE H2Sock_send_raw(Calling("send_raw"), cenv, wenv)
    /\ UNCHANGED <<scanvars, h1vars, h2vars, pipevars, buildvars, clivars, hw, rd, ws>>

Transport_send_request ==
    /\ tp.class # "none"
    /\ tp.opened < MaxSockets
    /\ \E cenv \in ConnectOutcomesOf(tp), wenv \in WriteOutcomes, outcome \in ParseOutcomes :
           tp' = IF tp.class = "HTTP1Client"
                     THEN H1Sock_send_request(Calling("send_request"), cenv, wenv, outcome)
                 ELSE H2Sock_send_request(Calling("send_request"), cenv, wenv)
    /\ UNCHANGED <<scanvars, h1vars, h2vars, pipevars, buildvars, clivars, hw, rd, ws>>

\* A transport after construction: an HTTP1Client with its keep_alive, or an
\* HTTP2Client with its force_http2.
InitSockets ==
    /\ OnlyExt
    /\ hw = NoWait
    /\ rd = NoRead
    /\ ws = NoFrontend
    /\ tp \in { NewTransport("HTTP1Client", tls, FALSE, k) : tls \in BOOLEAN, k \in BOOLEAN }
              \cup { NewTransport("HTTP2Client", tls, f, FALSE) : tls \in BOOLEAN, f \in BOOLEAN }

NextSockets ==
    \/ Transport_connect
    \/ Transport_close
    \/ Transport_send_raw
    \/ Transport_send_request

SpecSockets == InitSockets /\ [][NextSockets]_vars

\* ------------------------------------------ waiting for an HTTP/2 response
\* Time is counted in ticks; one tick is the shortest time in which a read
\* that has to wait for the peer completes.  self.timeout / max_attempts.
AttemptTimeout == 2

\* max_attempts = 3
max_attempts == 3

\* self.timeout
ReadTimeout == max_attempts * AttemptTimeout

\* What a read hands to _process_incoming_data: frames of other streams or of
\* the connection, response headers of the stream, data of the stream, the
\* end or the reset of the stream, headers with the end, bytes h2 rejects,
\* b'' (the peer closed), or an exception of the socket (the peer reset).
PeerMoves ==
    {"other", "headers", "data", "end", "headers_end", "protocol_error", "eof", "reset"}

\* The wait_for deadlines that bound the read under way: that of the read
\* itself, of the attempt (send_request) and of the first recursive call.
Deadlines(h) ==
    {h.now + ReadTimeout} \cup (IF h.d0 > 0 THEN {h.d0} ELSE {})
                          \cup (IF h.d1 > 0 THEN {h.d1} ELSE {})

Limit(h) == CHOOSE d \in Deadlines(h) : \A e \in Deadlines(h) : d <= e

\* The events returned to the send method hold a ResponseReceived.
SeenAll(h) == h.seen1 \/ h.seen_more

\* _parse_response and the return of the send method.
WaitParse(h) == [h EXCEPT !.stage = "returned", !.status = h.stored]

\* A call of _process_incoming_data by the send method; send_request wraps it
\* in wait_for(timeout / max_attempts).
StartRound(h) ==
    IF ~h.connected THEN [h EXCEPT !.stage = "raised", !.raised = "ConnectionError"]
    ELSE [h EXCEPT !.stage = "waiting", !.depth = 1, !.d1 = 0,
                   !.seen1 = FALSE, !.seen_more = FALSE,
                   !.d0 = IF h.method = "send_request" THEN h.now + AttemptTimeout ELSE 0]

\* That call is over.  send_malformed_headers parses; send_request parses
\* after a response or the last attempt and else starts the next attempt.
EndRound(h, seen) ==
    IF h.method = "send_malformed_headers" \/ seen \/ h.attempt = max_attempts
    THEN WaitParse(h)
    ELSE StartRound([h EXCEPT !.attempt = @ + 1])

\* Variant: an error of the read marks the client as not connected.
AfterReadError_Disconnects(h) == [h EXCEPT !.connected = FALSE]

\* except ConnectionError / except Exception of _process_incoming_data: the
\* error is logged and the events read so far are returned.
AfterReadError(h) == h

\* "Save events and data for the specific stream".
StoreMove(h, k) ==
    [h EXCEPT !.stored = IF k \in {"headers", "headers_end"} THEN 200 ELSE @,
              !.seen1 = @ \/ (h.depth = 1 /\ k \in {"headers", "headers_end"}),
              !.seen_more = @ \/ (h.depth > 1 /\ k \in {"headers", "headers_end"}),
              !.ended = @ \/ k \in {"end", "headers_end"}]

\* The read returned k.
Received(h, k) ==
    CASE k = "eof" -> EndRound([h EXCEPT !.gone = "eof"], SeenAll(h))
      [] k = "reset" -> EndRound(AfterReadError([h EXCEPT !.gone = "reset"]), SeenAll(h))
      [] k = "protocol_error" -> EndRound(AfterReadError(h), SeenAll(h))
      [] OTHER ->
           LET s == StoreMove(h, k)
           IN  IF s.ended THEN EndRound(s, SeenAll(s))
               ELSE [s EXCEPT !.depth = @ + 1,
                              !.d1 = IF @ = 0 THEN s.now + ReadTimeout ELSE @]

\* "Wait for response": the request frames are written.
WaitStart ==
    /\ hw.stage = "written"
    /\ hw' = StartRound(hw)
    /\ UNCHANGED <<scanvars, h1vars, h2vars, pipevars, buildvars, clivars, tp, rd, ws>>

\* Data arrives before every pending deadline.
ReadData ==
    /\ hw.stage = "waiting"
    /\ hw.gone = ""
    /\ \E delay \in 1..(Limit(hw) - hw.now - 1), k \in PeerMoves :
           hw' = Received([hw EXCEPT !.now = @ + delay], k)
    /\ UNCHANGED <<scanvars, h1vars, h2vars, pipevars, buildvars, clivars, tp, rd, ws>>

\* Nothing arrives before the first pending deadline: the attempt's wait_for
\* raises TimeoutError into the loop of send_request, or the wait_for of the
\* first recursive call cancels the calls below it, or the read itself times
\* out; the last two return the events read so far.
ReadTimesOut ==
    /\ hw.stage = "waiting"
    /\ hw.gone = ""
    /\ LET t == [hw EXCEPT !.now = Limit(hw)]
       IN  \/ hw.d0 = Limit(hw) /\ hw' = EndRound(t, FALSE)
           \/ hw.d1 = Limit(hw) /\ hw' = EndRound(t, hw.seen1)
           \/ hw.now + ReadTimeout = Limit(hw) /\ hw' = EndRound(t, SeenAll(hw))
    /\ UNCHANGED <<scanvars, h1vars, h2vars, pipevars, buildvars, clivars, tp, rd, ws>>

\* The peer has closed or reset the connection: the read returns b'' or
\* raises at once.
ReadAfterClose ==
    /\ hw.stage = "waiting"
    /\ hw.gone # ""
    /\ hw' = EndRound(IF hw.gone = "reset" THEN AfterReadError(hw) ELSE hw, SeenAll(hw))
    /\ UNCHANGED <<scanvars, h1vars, h2vars, pipevars, buildvars, clivars, tp, rd, ws>>

\* send_request or send_malformed_headers on a connected client, its frames
\* written.
InitH2Wait ==
    /\ OnlyExt
    /\ tp = NoTransport
    /\ rd = NoRead
    /\ ws = NoFrontend
    /\ hw \in { [NoWait EXCEPT !.method = m, !.stage = "written", !.connected = TRUE,
                               !.attempt = 1] :
                  m \in {"send_request", "send_malformed_headers"} }

NextH2Wait ==
    \/ WaitStart
    \/ ReadData
    \/ ReadTimesOut
    \/ ReadAfterClose

SpecH2Wait == InitH2Wait /\ [][NextH2Wait]_vars

\* The event loop runs: a read that can complete completes, a deadline that
\* is reached fires.
SpecH2WaitFair == SpecH2Wait /\ WF_vars(NextH2Wait)

\* ------------------------------------------- reading an HTTP/1.1 response
\* The chunks a reader has collected are counted up to this number; a larger
\* count is kept as this number.
MaxCounted == 4

Counted(n) == IF n < MaxCounted THEN n + 1 ELSE MaxCounted

\* A pass of a read loop that collected bytes and goes on; passes is the
\* number of such passes modulo 2.
Collected(r, field) ==
    [r EXCEPT ![field] = Counted(@), !.passes = (@ + 1) % 2]

\* How the body is read after the headers: by Transfer-Encoding: chunked, by
\* Content-Length, or until the connection closes.
Framings == {"chunked", "content_length", "until_close"}

ReadDone(r, outcome) == [r EXCEPT !.phase = "done", !.outcome = outcome]

\* The header block is complete or the peer has closed: the status line is
\* matched and the body reader is chosen by the headers.
HeadersRead(r, valid_status, framing) ==
    IF ~valid_status THEN ReadDone(r, "ValueError") ELSE [r EXCEPT !.phase = framing]

\* One pass of the loop of _read_headers: readuntil(CRLF CRLF) under
\* wait_for(timeout) finds the separator, or hits the end of the stream with
\* or without bytes before it, or overruns the reader's limit (the bytes are
\* taken and the loop goes on), or times out.
ReadHeadersStep ==
    /\ rd.phase = "headers"
    /\ \E how \in {"found", "eof_partial", "eof_empty", "overrun", "timeout"},
          valid_status \in BOOLEAN, framing \in Framings :
          /\ rd.eof => how = "eof_empty"
          /\ rd' = CASE how = "found" -> HeadersRead(rd, valid_status, framing)
                     [] how = "eof_partial" ->
                          [Collected(rd, "header_chunks") EXCEPT !.eof = TRUE]
                     [] how = "eof_empty" ->
                          HeadersRead([rd EXCEPT !.eof = TRUE],
                                      valid_status /\ rd.header_chunks > 0, framing)
                     [] how = "overrun" -> Collected(rd, "header_chunks")
                     [] OTHER -> ReadDone(rd, "TimeoutError")
    /\ UNCHANGED <<scanvars, h1vars, h2vars, pipevars, buildvars, clivars, tp, hw, ws>>

\* _read_content_length_body: one readexactly under wait_for(timeout).
ReadContentLengthStep ==
    /\ rd.phase = "content_length"
    /\ \E how \in {"complete", "incomplete", "timeout"} :
          /\ rd.eof => how = "incomplete"
          /\ rd' = ReadDone(rd, IF how = "timeout" THEN "TimeoutError" ELSE "ok")
    /\ UNCHANGED <<scanvars, h1vars, h2vars, pipevars, buildvars, clivars, tp, hw, ws>>

\* One pass of the loop of _read_chunked_body: a chunk is read and the loop
\* goes on, or the zero chunk, a bad size line or an incomplete chunk ends the
\* body, or the read of the size line times out.
ReadChunkStep ==
    /\ rd.phase = "chunked"
    /\ \E how \in {"chunk", "last", "bad_size", "incomplete", "timeout"} :
          /\ rd.eof => how = "incomplete"
          /\ rd' = CASE how = "chunk" -> Collected(rd, "body_chunks")
                     [] how = "timeout" -> ReadDone(rd, "TimeoutError")
                     [] OTHER -> ReadDone(rd, "ok")
    /\ UNCHANGED <<scanvars, h1vars, h2vars, pipevars, buildvars, clivars, tp, hw, ws>>

\* One pass of the loop of _read_until_close: read(8192) under
\* wait_for(timeout) returns bytes and the loop goes on, or returns b'', times
\* out or fails, and the body collected so far is returned.
ReadUntilCloseStep ==
    /\ rd.phase = "until_close"
    /\ \E how \in {"chunk", "closed", "timeout", "error"} :
          /\ rd.eof => how = "closed"
          /\ rd' = IF how = "chunk" THEN Collected(rd, "body_chunks")
                   ELSE ReadDone(rd, "ok")
    /\ UNCHANGED <<scanvars, h1vars, h2vars, pipevars, buildvars, clivars, tp, hw, ws>>

\* send_request has written its request and calls _parse_response.
InitH1Read ==
    /\ OnlyExt
    /\ tp = NoTransport
    /\ hw = NoWait
    /\ ws = NoFrontend
    /\ rd = [NoRead EXCEPT !.phase = "headers"]

NextH1Read ==
    \/ ReadHeadersStep
    \/ ReadContentLengthStep
    \/ ReadChunkStep
    \/ ReadUntilCloseStep

SpecH1Read == InitH1Read /\ [][NextH1Read]_vars

\* The event loop runs: a read that can complete completes, a deadline that
\* is reached fires.
SpecH1ReadFair == SpecH1Read /\ WF_vars(NextH1Read)

\* ------------------------------------------------------ the web front-end
\* Most websockets the front-end accepts in a run.
MaxWebsockets == 3

\* Most lines the scan's process writes.
MaxLines == 2

\* The client ids browsers connect under.
ClientIds == {"a", "b"}

\* client_id in active_websockets
Registered(w, client_id) == w.active_websockets[client_id] # 0

\* @app.websocket("/ws/{client_id}"): the connection is accepted and stored
\* under its client id, in place of whatever was stored there.
websocket_endpoint ==
    /\ ws.client_id # ""
    /\ Len(ws.sockets) < MaxWebsockets
    /\ \E client_id \in ClientIds :
          ws' = [ws EXCEPT
                    !.sockets = Append(@, [client_id |-> client_id, state |-> "open"]),
                    !.active_websockets[client_id] = Len(ws.sockets) + 1,
                    !.received = Append(@, 0)]
    /\ UNCHANGED <<scanvars, h1vars, h2vars, pipevars, buildvars, clivars, tp, hw, rd>>

\* The browser's side of a websocket goes away; its handler has not run yet.
ClientDisconnects ==
    /\ \E c \in 1..Len(ws.sockets) :
          /\ ws.sockets[c].state = "open"
          /\ ws' = [ws EXCEPT !.sockets[c].state = "disconnected"]
    /\ UNCHANGED <<scanvars, h1vars, h2vars, pipevars, buildvars, clivars, tp, hw, rd>>

\* websocket_endpoint, finally: if client_id in active_websockets:
\* del active_websockets[client_id]
Cleanup(w, c) ==
    [w EXCEPT !.sockets[c].state = "cleaned",
              !.active_websockets[w.sockets[c].client_id] = 0]

\* receive_text raises WebSocketDisconnect in the handler of a websocket
\* whose browser went away; the handler leaves through its finally clause.
websocket_endpoint_finally ==
    /\ \E c \in 1..Len(ws.sockets) :
          /\ ws.sockets[c].state = "disconnected"
          /\ ws' = Cleanup(ws, c)
    /\ UNCHANGED <<scanvars, h1vars, h2vars, pipevars, buildvars, clivars, tp, hw, rd>>

\* run_scan.read_stream, one line of the process: it is sent to the websocket
\* stored under the scan's client id, when there is one; a send on a
\* websocket that went away raises and the error is logged.
read_stream ==
    /\ ws.lines > 0
    /\ LET c == ws.active_websockets[ws.client_id]
       IN  ws' = IF Registered(ws, ws.client_id) /\ ws.sockets[c].state = "open"
                 THEN [ws EXCEPT !.lines = @ - 1, !.received[c] = @ + 1]
                 ELSE [ws EXCEPT !.lines = @ - 1, !.dropped = @ + 1]
    /\ UNCHANGED <<scanvars, h1vars, h2vars, pipevars, buildvars, clivars, tp, hw, rd>>

\* The server is up, no websocket is connected; a scan for one client id will
\* write some lines.
InitFrontend ==
    /\ OnlyExt
    /\ tp = NoTransport
    /\ hw = NoWait
    /\ rd = NoRead
    /\ ws \in { [NoFrontend EXCEPT !.active_websockets = [k \in ClientIds |-> 0],
                                   !.client_id = id, !.lines = n] :
                  id \in ClientIds, n \in 1..MaxLines }

NextFrontend ==
    \/ websocket_endpoint
    \/ ClientDisconnects
    \/ websocket_endpoint_finally
    \/ read_stream

SpecFrontend == InitFrontend /\ [][NextFrontend]_vars

\* ================================================================== claims
\* The description the catalogue's source gives mutation m of the running
\* CL.TE / TE.CL class.
MutationDescription(m) ==
    IF opts.headers_file THEN opts.file_data[m].description
    ELSE DefaultTeHeaders[m].description

\* The running CL.TE / TE.CL class has recorded a finding for mutation m.
HasFinding1(m) ==
    \E k \in 1..Len(vulnerable_headers) : vulnerable_headers[k].header = te_headers[m]

\* The running H2.TE class has recorded a finding for mutation m.
HasFindingH2(m) ==
    \E k \in 1..Len(h2_results.findings) :
        h2_results.findings[k].description = te_headers[m].description

\* The loop body of the probe recorded in hist[k] has been completed.
IterationDone(k) == k < Len(hist) \/ pc # "confirm"

\* C1: in CL.TE and TE.CL a finding is recorded for a mutation only if its
\* probe timed out and its confirmation completed without timeout or error.
C1_FindingOnlyAfterConfirm ==
    \A k \in 1..Len(hist) :
        HasFinding1(hist[k].mut) =>
            hist[k].probe.kind = "timeout" /\ hist[k].confirm.kind = "ok"

\* C2: in CL.TE and TE.CL, with the built-in or a file-loaded catalogue, once
\* the class scan has ended, every mutation whose probe timed out and whose
\* confirmation completed has exactly one finding in the class's result,
\* tagged with the class and carrying the mutation's description and header.
C2_OneFindingPerConfirmedMutation ==
    (pc \in {"returned", "raised"} /\ IsH1(opts.types[ti])) =>
        \A k \in 1..Len(hist) :
            (hist[k].probe.kind = "timeout" /\ hist[k].confirm.kind = "ok") =>
                LET m == hist[k].mut
                    h == te_headers[m]
                    fs == { n \in 1..Len(ret.findings) :
                              ret.findings[n].description = MutationDescription(m) }
                    n1 == Len(h.header_name)
                    n2 == Len(h.header_value)
                IN  /\ ret.kind = "findings"
                    /\ Cardinality(fs) = 1
                    /\ \A n \in fs :
                         LET f == ret.findings[n]
                         IN  /\ f.type = ClassType(opts.types[ti])
                             /\ Len(f.header) >= n1 + n2
                             /\ SubSeq(f.header, 1, n1) = h.header_name
                             /\ SubSeq(f.header, Len(f.header) - n2 + 1, Len(f.header))
                                  = Escape(h.header_value)

\* The requests written so far, as positions in the network trace.
Writes(kind) == { k \in 1..Len(net) : net[k].op = "write" /\ net[k].kind = kind }

\* C3: every probe is written on a connection opened for it by a transport
\* created for it: the transport is constructed after every request of the
\* baseline and of the other mutations, no connection or transport carries the
\* probes of two mutations, and the baseline's connection carries no probe.
C3_FreshConnectionPerProbe ==
    \A b \in Writes("probe") :
        /\ \E n \in 1..b : \E c \in n..b :
              /\ net[n].op = "new" /\ net[n].t = net[b].t
              /\ net[c].op = "connect" /\ net[c].t = net[b].t /\ net[c].c = net[b].c
              /\ \A w \in 1..b :
                    (net[w].op = "write" /\ w # b) => w < n
        /\ \A a \in Writes("probe") :
              net[a].mut # net[b].mut => (net[a].c # net[b].c /\ net[a].t # net[b].t)
        /\ \A a \in Writes("baseline") : net[a].c # net[b].c

\* C3 witness: the probes of two mutations have been written.
C3_Witness ==
    /\ Writes("baseline") # {}
    /\ \E a \in Writes("probe") : \E b \in Writes("probe") :
          /\ net[a].mut # net[b].mut
          /\ net[a].c # net[b].c
          /\ net[a].t # net[b].t

\* A completed probe is at least 3 times the baseline, or at least 1.5 times
\* with status 400, 408 or 500.
Elevated(o) ==
    /\ o.kind = "ok"
    /\ \/ o.time >= 3 * baseline.time
       \/ o.status \in {400, 408, 500} /\ 2 * o.time >= 3 * baseline.time

\* C5: in CL.TE and TE.CL a probe that completes with an elevated response
\* time gets a confirmation request, and a finding when that completes.
C5_ElevatedProbeIsConfirmed ==
    \A k \in 1..Len(hist) :
        (pc \notin {"h2_loop", "h2_return"} /\ ti > 0 /\ IsH1(opts.types[ti])
         /\ baseline.kind = "ok" /\ Elevated(hist[k].probe) /\ IterationDone(k)) =>
            /\ hist[k].confirm.kind # "none"
            /\ hist[k].confirm.kind = "ok" => HasFinding1(hist[k].mut)

\* The H2.TE class is the one running (or the one that ran last).
InH2 == ti > 0 /\ opts.types[ti] = "h2.te"

\* A completed probe is more than 3 times the baseline, or more than 1.5
\* times with status 400, 408 or 500.
StrictlyElevated(o) ==
    /\ o.kind = "ok"
    /\ \/ o.time > 3 * baseline.time
       \/ o.status \in {400, 408, 500} /\ 2 * o.time > 3 * baseline.time

\* C6 as stated: an H2.TE probe is a finding exactly when t_probe >= 3 * t_base
\* or its status is 400, 408 or 500 and t_probe >= 1.5 * t_base.
C6_BoundaryIncluded ==
    \A k \in 1..Len(hist) :
        (InH2 /\ baseline.kind = "ok" /\ hist[k].probe.kind = "ok") =>
            (HasFindingH2(hist[k].mut) <=> Elevated(hist[k].probe))

\* C6 amended: an H2.TE probe is a finding exactly when t_probe > 3 * t_base or
\* its status is 400, 408 or 500 and t_probe > 1.5 * t_base; a probe at exactly
\* 3 * t_base (or exactly 1.5 * t_base with such a status) is not a finding, and
\* neither is a probe that ended in an error.
C6_StrictThresholds ==
    \A k \in 1..Len(hist) :
        InH2 =>
            /\ (baseline.kind = "ok" /\ hist[k].probe.kind = "ok") =>
                   (HasFindingH2(hist[k].mut) <=> StrictlyElevated(hist[k].probe))
            /\ hist[k].probe.kind # "ok" => ~HasFindingH2(hist[k].mut)

\* C6 witness: an H2.TE probe answered at exactly 3 times the baseline and is
\* no finding, and another answered with status 400 above 1.5 times and is one.
C6_Witness ==
    /\ InH2
    /\ baseline.kind = "ok"
    /\ \E k \in 1..Len(hist) :
          /\ hist[k].probe.kind = "ok"
          /\ hist[k].probe.time = 3 * baseline.time
          /\ ~HasFindingH2(hist[k].mut)
    /\ \E k \in 1..Len(hist) :
          /\ hist[k].probe.status = 400
          /\ 2 * hist[k].probe.time > 3 * baseline.time
          /\ HasFindingH2(hist[k].mut)

\* Scenario S4: the baseline took 0.10 s and every probe so far answered
\* within [0.08 s, 0.18 s] with status 200 or 400.
S4Scenario ==
    /\ ti > 0
    /\ baseline.kind = "ok"
    /\ baseline.time = 10
    /\ \A k \in 1..Len(hist) :
          /\ hist[k].probe.kind = "ok"
          /\ hist[k].probe.time >= 8
          /\ hist[k].probe.time <= 18
          /\ hist[k].probe.status \in {200, 400}

\* C7 as stated: in scenario S4 no class has any finding.
C7_NoFindingInS4 ==
    S4Scenario =>
        /\ vulnerable_headers = <<>>
        /\ h2_results.findings = <<>>
        /\ ret.findings = <<>>

\* C7 amended: in scenario S4, CL.TE and TE.CL have no finding; H2.TE has a
\* finding exactly for the probes answered with status 400 in more than 0.15 s
\* (1.5 times the baseline), and returns exactly those.
C7_S4FindingsOnlyH2Status ==
    S4Scenario =>
        /\ vulnerable_headers = <<>>
        /\ ~InH2 => ret.findings = <<>>
        /\ InH2 =>
             LET slow == { k \in 1..Len(hist) :
                             hist[k].probe.status = 400 /\ hist[k].probe.time > 15 }
             IN  /\ \A k \in 1..Len(hist) : HasFindingH2(hist[k].mut) <=> k \in slow
                 /\ Len(h2_results.findings) = Cardinality(slow)
                 /\ pc = "returned" => Len(ret.findings) = Cardinality(slow)

\* C7 witness: an H2.TE scan in scenario S4 has probed all four mutations and
\* returned, with a finding for a status-400 answer at 0.18 s and none for the
\* others.
C7_Witness ==
    /\ S4Scenario
    /\ InH2
    /\ pc = "returned"
    /\ Len(hist) = 4
    /\ Len(ret.findings) = 1
    /\ \E k \in 1..Len(hist) : hist[k].probe.status = 400 /\ hist[k].probe.time = 18
    /\ \E k \in 1..Len(hist) : hist[k].probe.status = 400 /\ hist[k].probe.time = 15

\* C8: with exit_first a class scan stops at the first mutation for which a
\* finding is recorded, no later mutation is probed and the class returns
\* exactly one finding; the orchestrator runs no class after one that returned
\* a finding.
C8_ExitFirstStops ==
    opts.exit_first =>
        /\ Len(vulnerable_headers) <= 1
        /\ Len(h2_results.findings) <= 1
        /\ \A k \in 1..Len(hist) :
              (HasFinding1(hist[k].mut) \/ HasFindingH2(hist[k].mut)) => k = Len(hist)
        /\ (pc = "returned" /\ (vulnerable_headers # <<>> \/ h2_results.findings # <<>>))
              => Len(ret.findings) = 1
        /\ \A c \in DOMAIN results :
              (results[c].kind = "findings" /\ results[c].findings # <<>>) =>
                  /\ Len(results[c].findings) = 1
                  /\ c = opts.types[ti]
                  /\ pc = "done"

\* C8 witness: with exit_first, the first of two classes found something at a
\* mutation that is not the last of its catalogue, and the scan is over.
C8_Witness ==
    /\ opts.exit_first
    /\ pc = "done"
    /\ Len(opts.types) = 2
    /\ ti = 1
    /\ Len(hist) < Len(te_headers)
    /\ opts.types[1] \in DOMAIN results
    /\ Len(results[opts.types[1]].findings) = 1

\* The class's results keep an error record for mutation m: an entry of
\* results['errors'] in H2.TE, an entry with an error in the returned list in
\* CL.TE and TE.CL.
ErrorKept(m) ==
    IF InH2
    THEN \E n \in 1..Len(h2_results.errors) :
            /\ "description" \in DOMAIN h2_results.errors[n]
            /\ h2_results.errors[n].description = te_headers[m].description
    ELSE \E n \in 1..Len(ret.findings) : "error" \in DOMAIN ret.findings[n]

\* C9: a probe that ends in an error other than a timeout yields no finding,
\* and once the class has returned its results hold an error record for it.
C9_ProbeErrorIsRecorded ==
    \A k \in 1..Len(hist) :
        hist[k].probe.kind \in {"connect_error", "error"} =>
            /\ ~HasFinding1(hist[k].mut)
            /\ ~HasFindingH2(hist[k].mut)
            /\ pc = "returned" => ErrorKept(hist[k].mut)

\* C10: a class scan that started its probe loop and was not ended by
\* exit_first has, when it ends, probed every mutation of the catalogue once
\* and in catalogue order.
C10_EveryMutationProbed ==
    (/\ pc \in {"returned", "raised"}
     /\ IsH1(opts.types[ti]) => baseline.kind = "ok"
     /\ ~(opts.exit_first /\ (vulnerable_headers # <<>> \/ h2_results.findings # <<>>)))
        => [k \in 1..Len(hist) |-> hist[k].mut] = [k \in 1..Len(te_headers) |-> k]

\* The header lines of a request, one `<name>: <value> CRLF` per tuple in the
\* given order, each text encoded on its own.
RECURSIVE HeaderLines(_)
HeaderLines(headers) ==
    IF headers = <<>> THEN <<>>
    ELSE Encode(Head(headers)[1]) \o <<":", " ">> \o Encode(Head(headers)[2])
           \o <<CR, LF>> \o HeaderLines(Tail(headers))

\* C4: the bytes a send_request hands to the socket are the raw blob when one
\* is supplied, and otherwise the request line, the header lines in the given
\* order, an empty line and the body, with nothing added, reordered or dropped.
C4_WireIsRawOrBuilt ==
    (call.op = "send_request" /\ call.wrote) =>
        wire = IF req.raw_request.some
               THEN req.raw_request.bytes
               ELSE Encode(req.method) \o <<" ">> \o Encode(req.path)
                      \o <<" ", "HTTP/1.1", CR, LF>>
                      \o HeaderLines(req.headers)
                      \o <<CR, LF>>
                      \o (IF req.body.some THEN req.body.bytes ELSE <<>>)

\* The baseline GET of the running class was answered: it neither failed nor
\* ended without a response.
BaselineAnswered == baseline.kind = "ok" /\ baseline.status # NoStatus

\* C11: a probe becomes a finding only in a class whose baseline GET was
\* answered, without timeout or error, and was sent before the first probe.
C11_FindingNeedsBaseline ==
    \A k \in 1..Len(hist) :
        (HasFinding1(hist[k].mut) \/ HasFindingH2(hist[k].mut)) =>
            /\ BaselineAnswered
            /\ Writes("baseline") # {}
            /\ \A b \in Writes("baseline") : \A w \in Writes("probe") : b < w

\* C12: the header list an H2.TE probe emitted contains the header of its
\* mutation, with a placement filter and without one.
C12_MutationHeaderEmitted ==
    \A k \in 1..Len(hist) :
        (InH2 /\ hist[k].probe.kind = "ok") =>
            \E j \in 1..Len(hist[k].headers) :
                hist[k].headers[j] = << te_headers[hist[k].mut].header_name,
                                        te_headers[hist[k].mut].header_value >>

\* A send_malformed_headers call wrote its frames.
MalformedSent == h2call.op = "send_malformed_headers" /\ h2call.outcome = "ok"

\* The header list of the HEADERS frame just written.
EmittedHeaders == frames[1].headers

\* The default pseudo-headers followed by the caller's pseudo-headers.
LeadingHeaders ==
    StandardPseudoHeaders(h2req.method, h2req.path, h2c.use_tls) \o h2req.pseudo_headers

\* The operator headers with lower-cased names.
OperatorHeaders ==
    [k \in 1..Len(h2req.headers) |-> <<Lower(h2req.headers[k][1]), h2req.headers[k][2]>>]

\* The positions of the operator headers of one name, and the last of them.
OperatorNamed(name) == { k \in 1..Len(h2req.headers) : h2req.headers[k][1] = name }

LastOperatorValue(name) ==
    h2req.headers[CHOOSE k \in OperatorNamed(name) :
                      \A l \in OperatorNamed(name) : l <= k][2]

\* C13 as stated: the emitted list is the four default pseudo-headers, the
\* caller's pseudo-headers and the operator headers, in that order, with no
\* entry dropped, merged or reordered.
C13_AllHeadersAppended ==
    MalformedSent => EmittedHeaders = LeadingHeaders \o OperatorHeaders

\* C13 amended: the default and the caller's pseudo-headers lead the list in
\* order, the first entry of a name carrying the value of the last operator
\* header of that ':' name when there is one; the other operator headers
\* follow, the regular ones in order with lower-cased names, a new ':' name
\* once with its last value.
C13_HeaderListWithReplacement ==
    MalformedSent =>
        LET out == EmittedHeaders
            base == LeadingHeaders
            rest == SubSeq(out, Len(base) + 1, Len(out))
            FirstOfName(j) == \A l \in 1..(j - 1) : base[l][1] # base[j][1]
            InBase(name) == \E j \in 1..Len(base) : base[j][1] = name
        IN  /\ Len(out) >= Len(base)
            /\ \A j \in 1..Len(base) :
                  IF IsPseudo(base[j][1]) /\ OperatorNamed(base[j][1]) # {}
                                          /\ FirstOfName(j)
                  THEN out[j] = <<base[j][1], LastOperatorValue(base[j][1])>>
                  ELSE out[j] = base[j]
            /\ SelectSeq(rest, LAMBDA e : ~IsPseudo(e[1]))
                  = SelectSeq(OperatorHeaders, LAMBDA e : ~IsPseudo(e[1]))
            /\ \A j \in 1..Len(rest) :
                  IsPseudo(rest[j][1]) =>
                      /\ ~InBase(rest[j][1])
                      /\ OperatorNamed(rest[j][1]) # {}
                      /\ rest[j][2] = LastOperatorValue(rest[j][1])
                      /\ \A l \in 1..Len(rest) : rest[l][1] = rest[j][1] => l = j
            /\ \A k \in 1..Len(h2req.headers) :
                  (IsPseudo(h2req.headers[k][1]) /\ ~InBase(h2req.headers[k][1])) =>
                      \E j \in 1..Len(rest) : rest[j][1] = h2req.headers[k][1]

\* A GET with a second :method POST and two operator headers was sent: both
\* :method entries are in the list, GET first, and the operator's :method
\* took the place of neither.
C13_Witness ==
    /\ MalformedSent
    /\ h2req.method = <<"GET">>
    /\ h2req.pseudo_headers = << <<<<":method">>, <<"POST">>>> >>
    /\ h2req.headers = << <<<<"X-Custom">>, <<"a">>>>, <<<<":x-new">>, <<"v">>>> >>
    /\ EmittedHeaders[1] = <<<<":method">>, <<"GET">>>>
    /\ EmittedHeaders[5] = <<<<":method">>, <<"POST">>>>
    /\ EmittedHeaders[6] = <<<<"x-custom">>, <<"a">>>>
    /\ Len(EmittedHeaders) = 7

\* A send_padded_data call with a body got as far as writing to the socket.
PaddedSent ==
    /\ h2call.op = "send_padded_data"
    /\ h2call.outcome \in {"ok", "ImportError"}
    /\ Truthy(h2req.body)

\* C14: after the HEADERS frame send_padded_data emits one DATA frame on the
\* request's stream, with the PADDED flag, with END_STREAM iff end_stream, and
\* with the pad-length byte, the body and pad_len zero bytes as its payload.
C14_PaddedDataFrame ==
    PaddedSent =>
        /\ Len(frames) = 2
        /\ frames[1].type = "HEADERS"
        /\ frames[2].type = "DATA"
        /\ frames[2].stream = h2call.stream
        /\ "PADDED" \in frames[2].flags
        /\ ("END_STREAM" \in frames[2].flags) <=> h2req.end_stream
        /\ frames[2].payload = <<"pad-length byte">> \o h2req.body.bytes
                                  \o [k \in 1..h2req.padding_length |-> "0x00"]
        /\ Len(frames[2].payload) = 1 + Len(h2req.body.bytes) + h2req.padding_length

\* The frames just written that carry END_STREAM.
EndingFrames(fs) == { k \in 1..Len(fs) : "END_STREAM" \in fs[k].flags }

\* C15: send_malformed_headers emits END_STREAM iff end_stream is true, then
\* on one frame only, HEADERS without a body and DATA with one; with
\* end_stream false no frame ends the stream, as in the call of every H2.TE
\* probe.
C15_EndStreamOnOneFrame ==
    /\ MalformedSent =>
          /\ Len(frames) = IF Truthy(h2req.body) THEN 2 ELSE 1
          /\ (EndingFrames(frames) # {}) <=> h2req.end_stream
          /\ h2req.end_stream =>
                /\ EndingFrames(frames) = {Len(frames)}
                /\ frames[Len(frames)].type
                      = IF Truthy(h2req.body) THEN "DATA" ELSE "HEADERS"
    /\ \A t \in BOOLEAN :
          EndingFrames(MalformedFrames(1, H2ProbeRequest(H2RequestHeaders), t)) = {}

\* A call with a body and end_stream wrote HEADERS without END_STREAM and a
\* DATA frame with it.
C15_Witness ==
    /\ MalformedSent
    /\ Truthy(h2req.body)
    /\ h2req.end_stream
    /\ Len(frames) = 2
    /\ "END_STREAM" \notin frames[1].flags
    /\ frames[2].type = "DATA"
    /\ "END_STREAM" \in frames[2].flags

\* connect() was just called on a client that was not connected.
ConnectTried == h2call.op = "connect" /\ ~h2call.was_connected

\* The stream was established and HTTP/2 may be spoken on it.
Negotiated ==
    /\ h2call.tcp = "ok"
    /\ ~h2c.use_tls \/ h2call.alpn = "h2" \/ h2c.force_http2

RECURSIVE ArrivedEvents(_, _)
ArrivedEvents(box, stream_id) ==
    IF box = <<>> THEN <<>>
    ELSE (IF \A k \in 1..Len(Head(box)) : Head(box)[k].stream <= stream_id
          THEN Head(box) ELSE <<>>) \o ArrivedEvents(Tail(box), stream_id)

\* The payloads of the DATA events of a stream among events, concatenated.
RECURSIVE Payloads(_, _)
Payloads(events, stream_id) ==
    IF events = <<>> THEN <<>>
    ELSE LET e == Head(events)
         IN  (IF e.type = "DataReceived" /\ e.stream = stream_id THEN e.data ELSE <<>>)
                 \o Payloads(Tail(events), stream_id)

\* C17: a completed send returns as body the DATA payloads that arrived on
\* its own stream during the call, in arrival order, as status the :status of
\* a ResponseReceived on that stream (none when there was none), and marks
\* the stream ended iff a StreamEnded or StreamReset of that stream arrived;
\* events of other streams and the data of earlier requests add nothing.
C17_ResponseFromOwnStream ==
    [][ (/\ h2call'.op \in {"send_request", "send_malformed_headers",
                            "send_padded_data"}
         /\ h2call'.outcome = "ok"
         /\ h2call' # h2call \/ h2c' # h2c \/ inbox' # inbox) =>
            LET sid == h2call'.stream
                read == SubSeq(inbox, 1, Len(inbox) - Len(inbox'))
                events == ArrivedEvents(read, sid)
                own == SelectSeq(events, LAMBDA e : e.stream = sid)
                statuses == { own[k].status :
                                k \in { l \in 1..Len(own) :
                                          own[l].type = "ResponseReceived" } }
            IN  /\ h2call'.body = Payloads(events, sid)
                /\ h2call'.body = h2c'.response_data[sid]
                /\ IF statuses = {} THEN h2call'.status = NoStatus
                   ELSE h2call'.status \in statuses
                /\ h2call'.ended <=>
                      \E k \in 1..Len(own) : own[k].type \in {"StreamEnded", "StreamReset"}
                /\ \A other \in DOMAIN h2c.response_data :
                      other # sid => h2c'.response_data[other] = h2c.response_data[other]
       ]_vars

\* The second request of a connection got the DATA and the end of its own
\* stream in a read that also carried DATA of the first stream, whose body
\* stayed as it was.
C17_Witness ==
    /\ h2call.op = "send_request"
    /\ h2call.outcome = "ok"
    /\ h2call.stream = 3
    /\ h2call.body = <<"d">>
    /\ h2call.ended
    /\ h2c.response_data[1] = <<"a", "b">>

\* send_request wrote a request on a fresh connection and read the reply.
FirstResponseRead == call.op = "send_request" /\ call.first

\* A Transfer-Encoding header of the reply, its name compared without case,
\* contains chunked.
SaysChunked ==
    \E k \in 1..Len(reply.headers) :
        /\ reply.headers[k][1] \in { <<"Transfer-Encoding">>, <<"transfer-encoding">>,
                                    <<"TRANSFER-ENCODING">> }
        /\ reply.headers[k][2] \in { <<"chunked">>, <<"gzip, Chunked">> }

\* The Content-Length values of the reply that are non-negative integers.
LengthsGiven ==
    { n \in 0..Len(ChunkedStream) :
        \E k \in 1..Len(reply.headers) :
            /\ reply.headers[k][1] \in { <<"Content-Length">>, <<"content-length">> }
            /\ reply.headers[k][2] = CASE n = 0 -> <<"0">>
                                       [] n = 3 -> <<"3">>
                                       [] n = 5 -> <<"5">>
                                       [] OTHER -> <<"no such value">> }

\* The reply has a status line and a whole header block.
HeadRead == reply.cut = "none" /\ reply.valid_status

\* The peer went silent before the response was complete: in the header
\* block, before the last byte of a Content-Length body, before the end of
\* the last chunk, or anywhere in a body that only the close delimits.
StalledBeforeEnd ==
    /\ reply.ending = "stall"
    /\ \/ reply.cut # "none"
       \/ /\ HeadRead
          /\ IF SaysChunked THEN Len(reply.body) < Len(ChunkedStream)
             ELSE IF LengthsGiven # {}
                  THEN \A n \in LengthsGiven : Len(reply.body) < n
                  ELSE TRUE

\* C18: when the peer stalls before the response has been read completely,
\* in the header block or in a body of any framing, send_request raises a
\* timeout error and returns no partial response.
C18_StallRaisesTimeout ==
    (FirstResponseRead /\ StalledBeforeEnd) =>
        /\ call.outcome = "TimeoutError"
        /\ call.body = <<>>
        /\ call.status = NoStatus

\* The data of the chunks of ChunkedStream that arrived whole among its first
\* n bytes, and the bytes of a chunk that arrived in part.
WholeChunks(n) == IF n >= 6 THEN <<"x", "y", "z">> ELSE <<>>

PartOfChunk(n) == IF n \in 4..5 THEN SubSeq(ChunkedStream, 4, n) ELSE <<>>

\* C19: the chunked decoder does not raise on an incomplete body; when the
\* peer closes or stalls in a chunk-size line, in chunk data or before the
\* CRLF after a chunk, the call returns the bytes decoded so far.
C19_ChunkedNeverRaises ==
    (FirstResponseRead /\ HeadRead /\ SaysChunked
        /\ Len(reply.body) < Len(ChunkedStream)) =>
        /\ call.outcome = "ok"
        /\ call.body \in { WholeChunks(Len(reply.body)),
                           WholeChunks(Len(reply.body)) \o PartOfChunk(Len(reply.body)) }

\* C20: the body is read chunked when a Transfer-Encoding header contains
\* chunked, even beside a Content-Length; else as exactly N bytes when
\* Content-Length is a non-negative integer N; else, also for a negative or
\* a non-numeric Content-Length, until the peer closes.
C20_BodyFraming ==
    (FirstResponseRead /\ HeadRead) =>
        /\ call.framing = IF SaysChunked THEN "chunked"
                          ELSE IF LengthsGiven # {} THEN "content-length"
                          ELSE "until-close"
        /\ (~SaysChunked /\ LengthsGiven = {}) =>
              /\ call.outcome = "ok"
              /\ call.body = reply.body
        /\ (~SaysChunked /\ LengthsGiven # {} /\ call.outcome = "ok") =>
              \E n \in LengthsGiven :
                  call.body = SubSeq(reply.body, 1, IF Len(reply.body) < n
                                                    THEN Len(reply.body) ELSE n)

\* C21: pipeline_requests writes every request, in the order given, before it
\* reads anything, then parses one response per request in that order and
\* stops reading at the first response it cannot parse; the list it returns is
\* the responses parsed before that one, in order, followed by one error
\* marker, so it never has more entries than there were requests and nothing
\* after a failure is reported as parsed.
C21_PipelineOrder ==
    call.op = "pipeline_requests" =>
        LET n == Len(pipe.requests)
            rs == pcall.responses
            t == pcall.trace
            writes == Cardinality({a \in 1..Len(t) : t[a][1] = "write"})
        IN  /\ \A a \in 1..Len(t) :
                  IF a <= writes THEN t[a] = <<"write", a>>
                  ELSE t[a] = <<"read", a - writes>>
            /\ wire = Join([k \in 1..writes |->
                               HTTP1Client_build_request(
                                   pipe.requests[k].method, pipe.requests[k].path,
                                   pipe.requests[k].headers, pipe.requests[k].body)])
            /\ Len(t) > writes => writes = n
            /\ pcall.returned =>
                  /\ writes = n
                  /\ Len(t) = n + Len(rs)
                  /\ Len(rs) <= n
                  /\ \A k \in 1..Len(rs) :
                        IF rs[k].error # "" THEN k = Len(rs)
                        ELSE /\ k <= Len(pipe.replies)
                             /\ rs[k].status = pipe.replies[k].status
                  /\ Len(rs) < n => rs[Len(rs)].error # ""

\* Three requests were pipelined, the first response was parsed and the second
\* was not: the list holds that response and one error marker.
C21_Witness ==
    /\ call.op = "pipeline_requests"
    /\ pcall.returned
    /\ Len(pipe.requests) = 3
    /\ Len(pcall.responses) = 2
    /\ pcall.responses[1].error = ""
    /\ pcall.responses[2].error # ""
    /\ pcall.trace = << <<"write", 1>>, <<"write", 2>>, <<"write", 3>>,
                        <<"read", 1>>, <<"read", 2>> >>

\* The custom headers occur in `headers`, each with the name and the value it
\* was supplied with, in the order supplied.
CarriesInOrder(headers, custom_headers) ==
    \E f \in [1..Len(custom_headers) -> 1..Len(headers)] :
        /\ \A k \in 1..Len(custom_headers) : headers[f[k]] = custom_headers[k]
        /\ \A k, l \in 1..Len(custom_headers) : k < l => f[k] < f[l]

\* C22: every probe and every confirmation request, of every class, contains
\* each custom header supplied to the scan, name and value exactly as
\* supplied, in the order supplied.
C22_CustomHeadersVerbatim ==
    \A k \in 1..Len(built) :
        built[k].kind \in {"probe", "confirm"} =>
            CarriesInOrder(built[k].headers, target.custom_headers)

\* C25: the confirmation request of CL.TE and TE.CL has the method, the path
\* and the header list of the probe (names, values and order, custom and extra
\* headers included) except for the Content-Length value, 11 instead of 4 for
\* CL.TE and 5 instead of 6 for TE.CL; the TE.CL confirmation body is the
\* probe's body and the CL.TE confirmation body is `1\r\nZ\r\n0\r\n\r\n`,
\* whose length is the declared 11.
C25_ConfirmMatchesProbe ==
    Len(built) = 3 =>
        LET probe == built[2]
            confirm == built[3]
            cl == { k \in 1..Len(probe.headers) :
                        probe.headers[k] = << <<"Content-Length">>,
                            IF target.class = "cl.te" THEN <<"4">> ELSE <<"6">> >> }
        IN  /\ confirm.method = probe.method
            /\ confirm.path = probe.path
            /\ Len(confirm.headers) = Len(probe.headers)
            /\ cl = {3}
            /\ \A k \in 1..Len(probe.headers) :
                  IF k \in cl
                  THEN confirm.headers[k] = << <<"Content-Length">>,
                           IF target.class = "cl.te" THEN <<"11">> ELSE <<"5">> >>
                  ELSE confirm.headers[k] = probe.headers[k]
            /\ target.class = "te.cl" => confirm.body = probe.body
            /\ target.class = "cl.te" =>
                  /\ confirm.body = <<"1", CR, LF, "Z", CR, LF, "0", CR, LF, CR, LF>>
                  /\ Len(confirm.body) = 11

\* A CL.TE confirmation was built for a call with two custom headers and a
\* mutation that has an extra header.
C25_Witness ==
    /\ Len(built) = 3
    /\ target.class = "cl.te"
    /\ Len(target.custom_headers) = 2
    /\ target.te_header = TeHeaderWithExtra
    /\ Len(built[3].headers) = 7

\* C29: every request of every detector (baseline, probe, confirmation) uses
\* the path of the target URL with its query string, and `/` when the URL has
\* no path.
C29_PathWithQuery ==
    \A k \in 1..Len(built) :
        built[k].path = (IF target.url.path = <<>> THEN <<"/">> ELSE target.url.path)
                            \o (IF target.url.query = <<>> THEN <<>>
                                ELSE <<"?">> \o target.url.query)

\* C27: the H2.TE probe of the request_line placement replaces the :method
\* pseudo-header instead of adding a second one: the emitted header list has
\* exactly one :method entry, it is the first entry, its value is the injected
\* request line, and the default :method POST is not present.
C27_RequestLineReplacesMethod ==
    \A k \in 1..Len(built) :
        (/\ target.class = "h2.te"
         /\ target.te_header.type = "request_line"
         /\ built[k].kind = "probe") =>
            /\ { j \in 1..Len(built[k].headers) :
                     built[k].headers[j][1] = <<":method">> } = {1}
            /\ built[k].headers[1][2] =
                   <<"POST / HTTP/1.1", CR, LF, "Transfer-encoding: chunked", CR, LF, "x: x">>

\* C23: scan runs the enabled classes one at a time in the order listed, a
\* class starting only after the one before it came back; a class whose
\* detector raised is recorded as an error under its class key and the
\* classes after it still run; the result map has exactly one entry for each
\* class that was run.
C23_ClassesInOrder ==
    opts.mode = "scan" =>
        LET back == IF pc \in {"dispatch", "done"} THEN ti ELSE ti - 1
        IN  /\ DOMAIN results = { opts.types[k] : k \in 1..back }
            /\ \A k \in 1..back :
                  results[opts.types[k]].kind \in {"findings", "exception"}
            /\ (pc \in {"dispatch", "done"} /\ ti > 0) => results[opts.types[ti]] = ret
            /\ pc = "raised" => ret.kind = "exception"
            /\ (pc = "done" /\ ti < Len(opts.types)) =>
                  /\ ret.kind = "findings"
                  /\ ret.findings # <<>>
                  /\ opts.exit_first

\* A scan of two classes is over: the first detector raised and is recorded
\* as an error, the second was run and has its entry.
C23_Witness ==
    /\ opts.mode = "scan"
    /\ pc = "done"
    /\ Len(opts.types) = 2
    /\ ti = 2
    /\ results[opts.types[1]].kind = "exception"
    /\ opts.types[2] \in DOMAIN results

\* The class names the -t option names, and those of them no detector is
\* mapped to.
NamedTypes ==
    IF cli.type.given
    THEN SelectSeq([k \in 1..Len(cli.type.parts) |-> StripLower(cli.type.parts[k])],
                   LAMBDA t : t # "")
    ELSE <<>>

UnknownNamed == { k \in 1..Len(NamedTypes) : NamedTypes[k] \notin DOMAIN detector_map }

C30_DispatchTotal ==
    run.stage \notin {"none", "start"} =>
        /\ run.stage # "ImportError"
        /\ \A c \in DOMAIN detector_map : detector_map[c] \in DetectorModules

\* C28: the HTTP/2 transport offers send_partial_body: called with a body and
\* a content_length larger than the body and end_stream true, it emits a
\* content-length header of the declared value, a DATA frame of exactly the
\* body's bytes with END_STREAM, and returns the response.
C28_PartialBodySent ==
    (/\ h2call.op = "send_partial_body"
     /\ h2req.content_length > Len(h2req.body.bytes)
     /\ h2req.end_stream) =>
        /\ h2call.outcome = "ok"
        /\ Len(frames) = 2
        /\ frames[1].type = "HEADERS"
        /\ \E k \in 1..Len(frames[1].headers) :
              /\ frames[1].headers[k][1] = <<"content-length">>
              /\ frames[1].headers[k][2] = <<IF h2req.content_length = 10 THEN "10" ELSE "3">>
        /\ frames[2] = DataFrame(frames[2].stream, h2req.body.bytes, TRUE)
        /\ h2call.status # NoStatus

\* C26: the catalogue loaded from a mutation file has one entry for each
\* object of the file that has header_name and header_value, in file order,
\* each entry with the object's description, header_name, header_value and
\* extra_headers unchanged, and it replaces the built-in catalogue; the CL.TE
\* and the TE.CL loader give the same catalogue for the same file.
C26_CatalogueIsFile ==
    (opts.mode = "main" /\ opts.headers_file /\ ti > 0) =>
        /\ te_headers = SelectSeq(opts.file_data,
                            LAMBDA e : /\ "header_name" \in DOMAIN e
                                       /\ "header_value" \in DOMAIN e)
        /\ LoadClTe(opts.file_data) = LoadTeCl(opts.file_data)

\* C31: after close() returns on an HTTP/1.1 or HTTP/2 transport, every socket
\* the transport opened has been closed and the transport is not connected,
\* whatever the calls before it did, a failed send and a failed HTTP/2
\* handshake included.
C31_ClosedAfterClose ==
    tp.op = "close" => (tp.open = {} /\ ~tp.connected)

\* C32: a transport holds at most one open socket at any time, for every
\* sequence of connect, send_request, send_raw and close.
C32_AtMostOneSocket ==
    Cardinality(tp.open) <= 1

\* The connection of the k-th event of the trace is closed by a later event.
ClosedLater(k) ==
    \E j \in (k + 1)..Len(net) : net[j].op = "close" /\ net[j].c = net[k].c

\* C33: when a class scan returns, normally or through an error or exit_first,
\* every connection it opened (baseline, probes, confirmations) has been
\* closed, and the baseline's connection is closed before the first probe is
\* written.
C33_ScanClosesTransports ==
    pc \in {"returned", "raised"} =>
        /\ \A k \in 1..Len(net) : net[k].op = "connect" => ClosedLater(k)
        /\ \A b \in Writes("baseline"), p \in Writes("probe") :
               \E j \in (b + 1)..(p - 1) : net[j].op = "close" /\ net[j].c = net[b].c

\* C34: with keep_alive false the HTTP/1.1 transport is disconnected when
\* send_request finishes, whatever the outcome (a response, a timeout, a
\* malformed status line, a connection error while reading), so that the next
\* send_request opens a new connection.
C34_DisconnectedAfterRequest ==
    (call.op = "send_request" /\ ~h1.keep_alive) => ~h1.connected

\* C35: in CL.TE and TE.CL the confirmation is never written on the connection
\* that carried the probe: between the probe's write and the confirmation's
\* write the probe's connection is closed and the confirmation's connection is
\* opened.
C35_ConfirmOnNewConnection ==
    \A p \in Writes("probe"), c \in Writes("confirm") :
        /\ net[p].c # net[c].c
        /\ net[p].mut = net[c].mut =>
             /\ p < c
             /\ \E j \in (p + 1)..(c - 1) :
                    /\ net[j].op = "close" /\ net[j].c = net[p].c
                    /\ \E n \in (j + 1)..(c - 1) :
                           net[n].op = "connect" /\ net[n].c = net[c].c

\* A confirmation has been written after the probe of its mutation timed out.
C35_Witness ==
    /\ opts.mode # "request"
    /\ Writes("confirm") # {}
    /\ hist # <<>> /\ hist[Len(hist)].probe.kind = "timeout"

\* C36: in CL.TE and TE.CL a connection that cannot be established, for the
\* probe or for the confirmation's reconnect, is recorded in the result as an
\* error (error / confirm_error) and sets neither timed_out nor
\* confirm_timed_out.
C36_ConnectFailureIsError ==
    (hist # <<>> /\ ~InH2) =>
        LET last == hist[Len(hist)]
        IN  /\ last.probe.kind = "connect_error" =>
                 /\ result.error # ""
                 /\ ~result.timed_out
                 /\ result.confirm_timed_out = "absent"
            /\ last.confirm.kind = "connect_error" =>
                 /\ result.confirm_error # ""
                 /\ result.confirm_timed_out = "absent"

\* The reconnect of a confirmation failed after the probe had timed out.
C36_Witness ==
    /\ hist # <<>> /\ ~InH2
    /\ hist[Len(hist)].probe.kind = "timeout"
    /\ hist[Len(hist)].confirm.kind = "connect_error"
    /\ result.confirm_error # ""

C38_SendRequestCompletes ==
    <>(rd.phase = "done")

\* The port of the target URL: the one its netloc names, else the default
\* port of its scheme.
TargetPort(url) ==
    IF url.netloc[Len(url.netloc)] = "8080" THEN 8080
    ELSE IF url.scheme = "https" THEN 443 ELSE 80

\* C39: within one CL.TE or TE.CL scan the baseline, the probe and the
\* confirmation connect to the same host and port, those of the target URL,
\* an explicit port other than the default one included.
C39_SameHostAndPort ==
    target.class \in {"cl.te", "te.cl"} =>
        \A k \in 1..Len(built) :
            /\ built[k].host = <<"h">>
            /\ built[k].port = TargetPort(target.url)

\* The websocket accepted last under a client id.
LatestSocket(client_id) ==
    LET own == { c \in 1..Len(ws.sockets) : ws.sockets[c].client_id = client_id }
    IN  IF own = {} THEN 0 ELSE CHOOSE c \in own : \A d \in own : d <= c

\* C40: the websocket registered for a client id leaves the registry only
\* through its own disconnect: a websocket that was accepted last under its id
\* and has not gone away is the one registered, also when an earlier websocket
\* of the same id is cleaned up after it connected.
C40_LaterConnectionStaysRegistered ==
    \A client_id \in ClientIds :
        LET c == LatestSocket(client_id)
        IN  (c # 0 /\ ws.sockets[c].state = "open") =>
                ws.active_websockets[client_id] = c

====
